---------------------------- MODULE Spec2Model ----------------------------
(***************************************************************************)
(* A model of the IntervalsGenerator merge and integrity-validation core:  *)
(* DataMerger (intervals/merger.py), IntegrityValidator                    *)
(* (intervals/validators/integrity.py), the gap-length helper              *)
(* (intervals/utils.py) and Pipeline.run_merge (intervals/pipeline.py).    *)
(*                                                                         *)
(* A pandas DataFrame is modelled column-wise: cols is the sequence of     *)
(* column names, n the number of rows (a RangeIndex 0..n-1 after           *)
(* reset_index(drop=True)) and data[j] the sequence of the n cells of the  *)
(* j-th column.  Row r of the DataFrame is position r+1 of each column.    *)
(***************************************************************************)
EXTENDS Integers, Sequences, FiniteSets, TLC

VARIABLES
    pc,             \* position of the modelled call: "ready" or "done"
    base_df,        \* merge_files argument base_df
    clean_files,    \* what fs.read_csv yields for each path of clean_files
    validate_head,  \* merge_files argument
    validate_tail,  \* merge_files argument
    yes_no,         \* the answer ui.ask_yes_no gives
    df_concat,      \* df_merged right after pd.concat (merger.py:91)
    df_head,        \* df_merged after the head-trim step (merger.py:96-97)
    df_merged,      \* the table merge_files returns
    ui_log,         \* the UserInterface calls made, in order
    wahoo_file,     \* what 1_Wahoo/Wahoo.csv is: missing, or what reading it gives
    loader_files,   \* per non-base loader, what its *_clean.csv files give when read
    rm_result,      \* run_merge: "pending", "None", "path" or "raised"
    reads,          \* the files fs.read_csv was called on, in order
    merge_calls,    \* number of merger.merge_files calls
    output_file,    \* the dated output file: absent or the table written
    v_df,           \* the table handed to the validator
    loader_spec,    \* validate_full argument loader_spec
    gap_threshold,  \* IntegrityValidator.gap_threshold
    fail_fast,      \* IntegrityValidator.fail_fast
    strict_mode,    \* IntegrityValidator.strict_mode
    v_required,     \* validate_columns argument required_columns
    v_result,       \* what the validator call returned or raised
    ip_df,          \* interpolate_time_gaps argument df
    ip_method,      \* interpolate_time_gaps argument method
    ip_max_gap,     \* interpolate_time_gaps argument max_gap
    ip_result,      \* what interpolate_time_gaps returned: the table and the count
    dry_run,        \* RealFileSystem.dry_run
    disk,           \* the real filesystem: what each path holds
    disk0,          \* the real filesystem when the RealFileSystem was constructed
    operations_log, \* RealFileSystem._operations_log
    fs_calls,       \* the calls made on the RealFileSystem, in order, with their results
    vf_files,       \* validate_files argument files: what read_func gives for each
    vf_parallel,    \* validate_files argument parallel
    vf_max_workers, \* validate_files argument max_workers
    vf_task,        \* per submitted file, where its safe_read task is
    vf_results,     \* the keys of read_csvs_parallel's results dict, in insertion order
    vf_reads,       \* the files read_func was called on, in call order
    vf_validated,   \* the files validate was called on, in call order
    vf_ret,         \* what validate_files returned: "pending", "True" or "False"
    work,           \* per loader, the files of its working directory (source_dir)
    old,            \* per loader, the files of its archive directory (old_dir)
    work0,          \* the working directories before the call
    proc_call,      \* the call made: "run_processing" or the loader whose process_files ran
    proc_ret,       \* per loader, how its process_files ended ("not_called" if it did not run)
    proc_errors,    \* the files reported as unprocessable through ui.print_error
    rp_ret,         \* how run_processing ended: "pending", "returned" or the exception
    im_loader,      \* whose import_from_downloads runs: "base" or "wahoo"
    downloads_exists, \* whether downloads_dir exists
    inbox,          \* downloads_dir: per file name, what it holds
    inbox0,         \* downloads_dir before the call
    source_dir,     \* the loader's working directory: per file name, what it holds
    detected,       \* per inbox file, what detect_in_downloads answers
    csv_files,      \* the names the glob of downloads_dir returned
    im_i,           \* the position of the loop in csv_files
    imported,       \* the list import_from_downloads builds and returns
    fh_readable,    \* whether the file find_header_row opens can be read
    fh_lines,       \* the lines of that file
    fh_keywords,    \* its keywords argument
    fh_max_lines,   \* its max_lines argument
    fh_ret,         \* what it returned
    rf_stages,      \* how cleanup, import and processing of run_full end: "ok" or "raised"
    rv_outcome,     \* what validate_files does: "True", "False" or the exception it raises
    rv_answer,      \* what ask_yes_no answers to "continue despite the errors?"
    rv_asked,       \* whether run_validation asked
    rv_ret,         \* how run_validation ended: "pending", "True", "False" or "RuntimeError"
    rf_ret,         \* how run_full ended: "pending", "path", "None" or "raised"
    rf_trace,       \* the steps of run_full that have run, in order
    reg_loaders,    \* LoaderRegistry._loaders: the registered names, in dict order
    reg_priority,   \* LoaderRegistry._metadata: per registered name, its priority
    reg_calls,      \* the number of register / unregister calls made after import
    inst_fails,     \* the names whose loader class raises when instantiated
    available,      \* what available_loaders() returned when the pipeline was built
    pl_loaders,     \* Pipeline._loaders: the loader names, in dict order
    visits,         \* per pipeline step run, the loaders it went through, in order
    invocations,    \* the command-line invocations of the day so far: "full" or "merge_only"
    out_file,       \* base_dir/Trening-<today>-import.csv: the invocation that wrote it (0: no file)
    out_archive,    \* 5_Treningi_Old/Trening-<today>-import.csv, likewise
    out_writes,     \* the invocations whose save_output wrote the file, in order
    g_present,      \* whether the Garmin file read has any of WANTED_COLUMNS
    g_df,           \* df[present] of that file: its rows, top to bottom
    g_clean,        \* the table written as <stem>_clean.csv: [label, row] per kept row
    g_rows_dropped, \* rows_dropped of the success message
    w_dir,          \* the names in downloads_dir
    w_pc,           \* DownloadsWatcher.watch: "idle", "loop", "debounce", "sleep" or "returned"
    w_stop,         \* _stop_event is set
    w_known,        \* known_files
    w_current,      \* current_names of the latest poll
    w_new,          \* new_names of the latest poll
    w_passed,       \* the names of the latest callback(new_files)
    w_seen,         \* the names the poll before the latest one found
    w_owed,         \* names found by a poll and not by the one before, not passed since
    cn_series,      \* the series given to check_consecutive_nans_optimized
    cn_threshold,   \* its threshold argument: [given, value], given FALSE for None
    cn_ret          \* the number it returned (NotRun before the call)

mergeVars == <<base_df, clean_files, validate_head, validate_tail, yes_no,
               df_concat, df_head, df_merged, ui_log>>

pipeVars == <<wahoo_file, loader_files, rm_result, reads, merge_calls, output_file>>

\* The arguments and settings of a validator call, which the call leaves alone.
valInputs == <<v_df, loader_spec, gap_threshold, fail_fast, strict_mode, v_required>>

valVars == <<valInputs, v_result>>

interpVars == <<ip_df, ip_method, ip_max_gap, ip_result>>

\* The variables of the helpers around the merge and the validator.
fsVars == <<dry_run, disk, disk0, operations_log, fs_calls>>

batchVars == <<vf_files, vf_parallel, vf_max_workers, vf_task, vf_results,
               vf_reads, vf_validated, vf_ret>>

procVars == <<work, old, work0, proc_call, proc_ret, proc_errors, rp_ret>>

importVars == <<im_loader, downloads_exists, inbox, inbox0, source_dir, detected,
                csv_files, im_i, imported>>

headerVars == <<fh_readable, fh_lines, fh_keywords, fh_max_lines, fh_ret>>

fullVars == <<rf_stages, rv_outcome, rv_answer, rv_asked, rv_ret, rf_ret, rf_trace>>

regVars == <<reg_loaders, reg_priority, reg_calls,
             inst_fails, available, pl_loaders, visits>>

outVars == <<invocations, out_file, out_archive, out_writes>>

garminVars == <<g_present, g_df, g_clean, g_rows_dropped>>

watchVars == <<w_dir, w_pc, w_stop, w_known, w_current, w_new, w_passed, w_seen, w_owed>>

nansVars == <<cn_series, cn_threshold, cn_ret>>

toolVars == <<interpVars, fsVars, batchVars, procVars, importVars,
              headerVars, fullVars, regVars, outVars, garminVars, watchVars, nansVars>>

----------------------------------------------------------------------------
(* Bounds of the model *)

MaxRows == 2        \* rows of a base table in the merge family
MaxTrimRows == 3    \* rows of a table in the trim family
MaxSources == 2     \* paths in clean_files
MaxGapRows == 4     \* rows of a table checked for gaps
MaxThreshold == 2   \* largest gap_threshold of the model
MaxValRows == 3     \* rows of a table given to validate_full

----------------------------------------------------------------------------
(* Cells and tables *)

\* A cell: a missing value (NaN/None), a number, or a string.
NaN == [k |-> "nan", num |-> 0, str |-> ""]
Num(x) == [k |-> "num", num |-> x, str |-> ""]
Txt(s) == [k |-> "str", num |-> 0, str |-> s]

Range(s) == {s[i] : i \in 1..Len(s)}

Max(a, b) == IF a >= b THEN a ELSE b

\* The strings of the model that match the regular expression ^\s*$ .
BlankStrings == {"", " "}

EmptyTable == [cols |-> <<>>, n |-> 0, data |-> <<>>]

\* df.empty: some axis has length 0.
IsEmptyDf(df) == df.n = 0 \/ Len(df.cols) = 0

\* Position of the first column named c (0 when absent).
ColIndex(df, c) ==
    IF c \in Range(df.cols)
    THEN CHOOSE j \in 1..Len(df.cols) :
            df.cols[j] = c /\ \A h \in 1..(j - 1) : df.cols[h] # c
    ELSE 0

\* df[c] for a column that is present.
Col(df, c) == df.data[ColIndex(df, c)]

\* The positions of s, in order, whose element satisfies the membership test.
RECURSIVE KeepIdx(_, _, _)
KeepIdx(s, keep, j) ==
    IF j > Len(s) THEN <<>>
    ELSE (IF s[j] \in keep THEN <<j>> ELSE <<>>) \o KeepIdx(s, keep, j + 1)

\* df.drop(columns=names): every column whose name is in names is removed.
DropColumns(df, names) ==
    LET idx == KeepIdx(df.cols, Range(df.cols) \ names, 1)
    IN  [cols |-> [j \in 1..Len(idx) |-> df.cols[idx[j]]],
         n    |-> df.n,
         data |-> [j \in 1..Len(idx) |-> df.data[idx[j]]]]

\* A column re-indexed to n rows: rows it lacks are missing.
PadTo(col, n) == [i \in 1..n |-> IF i <= Len(col) THEN col[i] ELSE NaN]

\* Mutant of MaxN: the rows of the last table instead of the longest.
MaxNLast(dfs) == IF dfs = <<>> THEN 0 ELSE dfs[Len(dfs)].n

RECURSIVE MaxN(_)
MaxN(dfs) == IF dfs = <<>> THEN 0 ELSE Max(Head(dfs).n, MaxN(Tail(dfs)))

RECURSIVE AllCols(_)
AllCols(dfs) == IF dfs = <<>> THEN <<>> ELSE Head(dfs).cols \o AllCols(Tail(dfs))

RECURSIVE AllData(_, _)
AllData(dfs, n) ==
    IF dfs = <<>> THEN <<>>
    ELSE [j \in 1..Len(Head(dfs).data) |-> PadTo(Head(dfs).data[j], n)]
         \o AllData(Tail(dfs), n)

\* pd.concat(all_dfs, axis=1) of tables that all carry a RangeIndex: an outer
\* join on the row labels, so the result has the rows of the longest table.
Concat(all_dfs) ==
    LET n == MaxN(all_dfs)
    IN  [cols |-> AllCols(all_dfs), n |-> n, data |-> AllData(all_dfs, n)]

\* No interpolation is part of the run.
InterpIdle ==
    /\ ip_df = EmptyTable
    /\ ip_method = "none"
    /\ ip_max_gap = 0
    /\ ip_result = [df |-> EmptyTable, total_filled |-> 0]

\* No RealFileSystem is part of the run.
FsIdle ==
    /\ dry_run = FALSE
    /\ disk = <<>>
    /\ disk0 = <<>>
    /\ operations_log = <<>>
    /\ fs_calls = <<>>

\* No validate_files call is part of the run.
BatchIdle ==
    /\ vf_files = <<>>
    /\ vf_parallel = FALSE
    /\ vf_max_workers = 0
    /\ vf_task = <<>>
    /\ vf_results = <<>>
    /\ vf_reads = <<>>
    /\ vf_validated = <<>>
    /\ vf_ret = "pending"

\* No file processing is part of the run.
ProcIdle ==
    /\ work = <<>>
    /\ old = <<>>
    /\ work0 = <<>>
    /\ proc_call = ""
    /\ proc_ret = <<>>
    /\ proc_errors = {}
    /\ rp_ret = "pending"

\* No import is part of the run.
ImportIdle ==
    /\ im_loader = ""
    /\ downloads_exists = FALSE
    /\ inbox = <<>>
    /\ inbox0 = <<>>
    /\ source_dir = <<>>
    /\ detected = <<>>
    /\ csv_files = <<>>
    /\ im_i = 1
    /\ imported = <<>>

\* No header search is part of the run.
HeaderIdle ==
    /\ fh_readable = TRUE
    /\ fh_lines = <<>>
    /\ fh_keywords = <<>>
    /\ fh_max_lines = [given |-> FALSE, value |-> 0]
    /\ fh_ret = [found |-> FALSE, row |-> 0, raised |-> ""]

FullRunIdle ==
    /\ rf_stages = "ok"
    /\ rv_outcome = "True"
    /\ rv_answer = FALSE
    /\ rv_asked = FALSE
    /\ rv_ret = "pending"
    /\ rf_ret = "pending"
    /\ rf_trace = <<>>

RegistryIdle ==
    /\ reg_loaders = <<>>
    /\ reg_priority = <<>>
    /\ reg_calls = 0
    /\ inst_fails = {}
    /\ available = <<>>
    /\ pl_loaders = <<>>
    /\ visits = <<>>

OutputIdle ==
    /\ invocations = <<>>
    /\ out_file = 0
    /\ out_archive = 0
    /\ out_writes = <<>>

GarminIdle ==
    /\ g_present = FALSE
    /\ g_df = <<>>
    /\ g_clean = <<>>
    /\ g_rows_dropped = 0

WatchIdle ==
    /\ w_dir = {}
    /\ w_pc = "idle"
    /\ w_stop = FALSE
    /\ w_known = {}
    /\ w_current = {}
    /\ w_new = {}
    /\ w_passed = {}
    /\ w_seen = {}
    /\ w_owed = {}

NansIdle ==
    /\ cn_series = <<>>
    /\ cn_threshold = [given |-> FALSE, value |-> 0]
    /\ cn_ret = 0 - 1   \* NotRun

ToolsIdle ==
    InterpIdle /\ FsIdle /\ BatchIdle /\ ProcIdle /\ ImportIdle /\ HeaderIdle /\
    FullRunIdle /\ RegistryIdle /\ OutputIdle /\ GarminIdle /\ WatchIdle /\ NansIdle

----------------------------------------------------------------------------
(* DataMerger.merge_files: collecting the tables (merger.py:53-91) *)

\* One UserInterface call: its kind and the step that made it.
Ev(kind, by) == [kind |-> kind, by |-> by]

\* What fs.read_csv(clean_path) does: it returns a table or raises.
ReadOk(df) == [err |-> FALSE, df |-> df]
ReadError == [err |-> TRUE, df |-> EmptyTable]

\* Mutant of Duplicates: no column is recognised as a duplicate.
DuplicatesNone(df_new, seen_columns) == <<>>

\* duplicates = [col for col in new_reset.columns if col in seen_columns]
Duplicates(df_new, seen_columns) ==
    LET idx == KeepIdx(df_new.cols, seen_columns, 1)
    IN  [j \in 1..Len(idx) |-> df_new.cols[idx[j]]]

\* The for loop over clean_files; acc is [all_dfs, seen_columns, ui].
RECURSIVE MergeLoop(_, _)
MergeLoop(files, acc) ==
    IF files = <<>> THEN acc
    ELSE
      LET f == Head(files) IN
      IF f.err
      THEN \* except Exception: print_error, next file
           MergeLoop(Tail(files),
                     [acc EXCEPT !.ui = Append(@, Ev("error", "merge_files"))])
      ELSE
        LET duplicates == Duplicates(f.df, acc.seen_columns)
            ui1 == IF duplicates # <<>>
                   THEN Append(acc.ui, Ev("message", "merge_files"))
                   ELSE acc.ui
            new_reset == IF duplicates # <<>>
                         THEN DropColumns(f.df, Range(duplicates))
                         ELSE f.df
        IN  IF IsEmptyDf(new_reset)
            THEN MergeLoop(Tail(files),
                           [acc EXCEPT !.ui = Append(ui1, Ev("warning", "merge_files"))])
            ELSE MergeLoop(Tail(files),
                           [all_dfs      |-> Append(acc.all_dfs, new_reset),
                            seen_columns |-> acc.seen_columns \cup Range(new_reset.cols),
                            ui |-> ui1 \o <<Ev("success", "merge_files"),
                                            Ev("message", "merge_files")>>])

\* MUTANT of MergeConcat: the try is around the loop, so that the first
\* failed read ends it and the files after it are not merged.
MergeConcatUntilError(base, files) ==
    LET failed == {i \in 1..Len(files) : files[i].err}
        upto == IF failed = {} THEN Len(files)
                ELSE (CHOOSE i \in failed : \A q \in failed : i <= q) - 1
        acc0 == [all_dfs      |-> <<base>>,
                 seen_columns |-> Range(base.cols),
                 ui |-> <<Ev("message", "merge_files"), Ev("separator", "merge_files")>>]
        acc == MergeLoop(SubSeq(files, 1, upto), acc0)
    IN  [df |-> Concat(acc.all_dfs),
         ui |-> acc.ui \o <<Ev("error", "merge_files"), Ev("message", "merge_files"),
                            Ev("success", "merge_files")>>]

\* merger.py:50-94: the batch and its single concat.
MergeConcat(base, files) ==
    LET acc0 == [all_dfs      |-> <<base>>,
                 seen_columns |-> Range(base.cols),
                 ui |-> <<Ev("message", "merge_files"), Ev("separator", "merge_files")>>]
        acc == MergeLoop(files, acc0)
    IN  [df |-> Concat(acc.all_dfs),
         ui |-> acc.ui \o <<Ev("message", "merge_files"), Ev("success", "merge_files")>>]

----------------------------------------------------------------------------
(* Head and tail trimming (merger.py:104-207) *)

\* Time-related column names (merger.py:16).
TIME_KEYWORDS == {"secs", "seconds", "time", "timestamp", "timer.s"}

\* str(c).lower() on the column names of the model.
Lower(c) ==
    CASE c = "Secs"    -> "secs"
      [] c = "TIME"    -> "time"
      [] c = "Timer.s" -> "timer.s"
      [] OTHER         -> c

\* Mutant of IsNaCheck: blank strings are not replaced by NaN.
IsNaCheckNoBlank(cell) == cell.k = "nan"

\* A cell of df_check is NaN: the cell is missing, or it is a string matching
\* ^\s*$ (replaced by NaN in the object columns, merger.py:112-117).
IsNaCheck(cell) ==
    cell.k = "nan" \/ (cell.k = "str" /\ cell.str \in BlankStrings)

\* Row r (0-based) has no missing value in any column of df_check.
RowComplete(df, r) ==
    \A j \in 1..Len(df.cols) : ~IsNaCheck(df.data[j][r + 1])

\* np.where(complete_mask)[0] as a set of 0-based positions.
CompleteIndices(df) == {r \in 0..(df.n - 1) : RowComplete(df, r)}

SetMin(S) == CHOOSE x \in S : \A y \in S : x <= y
SetMax(S) == CHOOSE x \in S : \A y \in S : x >= y

\* Mutant of IsTimeCol: the comparison is case-sensitive.
IsTimeColCaseSensitive(c) == c \in TIME_KEYWORDS

\* time_cols = [c for c in df.columns if str(c).lower() in TIME_KEYWORDS]
IsTimeCol(c) == Lower(c) \in TIME_KEYWORDS

\* column.shift(-k): row i takes the value of row i + k, the last k rows are missing.
ShiftUp(col, k) ==
    [i \in 1..Len(col) |-> IF i + k <= Len(col) THEN col[i + k] ELSE NaN]

\* df_new[data_cols] = df_new[data_cols].shift(-first_valid_pos)
ShiftDataCols(df, k) ==
    [df EXCEPT !.data = [j \in 1..Len(df.cols) |->
                            IF IsTimeCol(df.cols[j]) THEN df.data[j]
                            ELSE ShiftUp(df.data[j], k)]]

\* Mutant of ValidateAndTrimHead: the data is shifted whatever the answer.
ValidateAndTrimHeadNoConsent(df, answer) ==
    LET complete_indices == CompleteIndices(df)
        first_valid_pos == SetMin(complete_indices)
    IN  IF complete_indices = {}
        THEN [df |-> df, ui |-> <<Ev("message", "head"), Ev("warning", "head")>>]
        ELSE IF first_valid_pos = 0
        THEN [df |-> df, ui |-> <<Ev("message", "head"), Ev("success", "head")>>]
        ELSE [df |-> ShiftDataCols(df, first_valid_pos),
              ui |-> <<Ev("message", "head"), Ev("warning", "head"),
                       Ev("ask_yes_no", "head"), Ev("success", "head")>>]

\* _validate_and_trim_head(df) with the answer ask_yes_no would give.
ValidateAndTrimHead(df, answer) ==
    LET complete_indices == CompleteIndices(df)
        first_valid_pos == SetMin(complete_indices)
        hdr == <<Ev("message", "head")>>
    IN  IF complete_indices = {}
        THEN [df |-> df, ui |-> hdr \o <<Ev("warning", "head")>>]
        ELSE IF first_valid_pos = 0
        THEN [df |-> df, ui |-> hdr \o <<Ev("success", "head")>>]
        ELSE IF ~answer
        THEN [df |-> df,
              ui |-> hdr \o <<Ev("warning", "head"), Ev("ask_yes_no", "head"),
                              Ev("message", "head")>>]
        ELSE [df |-> ShiftDataCols(df, first_valid_pos),
              ui |-> hdr \o <<Ev("warning", "head"), Ev("ask_yes_no", "head"),
                              Ev("message", "head"), Ev("message", "head"),
                              Ev("success", "head")>>]

\* Mutant of ILocHead: one row too many is kept.
ILocHeadOneMore(df, rows_to_keep) ==
    LET m == IF rows_to_keep + 1 <= df.n THEN rows_to_keep + 1 ELSE df.n
    IN  [df EXCEPT !.n = m,
                   !.data = [j \in 1..Len(df.cols) |-> SubSeq(df.data[j], 1, m)]]

\* df.iloc[:rows_to_keep]
ILocHead(df, rows_to_keep) ==
    [df EXCEPT !.n = rows_to_keep,
               !.data = [j \in 1..Len(df.cols) |-> SubSeq(df.data[j], 1, rows_to_keep)]]

\* _validate_and_trim_tail(df)
ValidateAndTrimTail(df) ==
    LET complete_indices == CompleteIndices(df)
        last_valid_pos == SetMax(complete_indices)
        rows_to_keep == last_valid_pos + 1
        to_remove == df.n - rows_to_keep
        hdr == <<Ev("message", "tail")>>
    IN  IF complete_indices = {}
        THEN [df |-> df, ui |-> hdr \o <<Ev("warning", "tail")>>]
        ELSE IF to_remove = 0
        THEN [df |-> df, ui |-> hdr \o <<Ev("success", "tail")>>]
        ELSE [df |-> ILocHead(df, rows_to_keep),
              ui |-> hdr \o <<Ev("warning", "tail"), Ev("message", "tail"),
                              Ev("success", "tail")>>]

----------------------------------------------------------------------------
(* The merge_files call as one step *)

merge_files ==
    /\ pc = "ready"
    /\ LET c == MergeConcat(base_df, clean_files)
           h == IF validate_head THEN ValidateAndTrimHead(c.df, yes_no)
                ELSE [df |-> c.df, ui |-> <<>>]
           t == IF validate_tail THEN ValidateAndTrimTail(h.df)
                ELSE [df |-> h.df, ui |-> <<>>]
       IN  /\ df_concat' = c.df
           /\ df_head' = h.df
           /\ df_merged' = t.df
           /\ ui_log' = c.ui \o h.ui \o t.ui
    /\ pc' = "done"
    /\ UNCHANGED <<base_df, clean_files, validate_head, validate_tail, yes_no>>
    /\ UNCHANGED <<pipeVars, valVars, toolVars>>


----------------------------------------------------------------------------
(* Gap length (utils.py:102-137) and IntegrityValidator (integrity.py) *)

\* Default gap threshold (config.py:31).
DEFAULT_GAP_THRESHOLD == 10

\* is_null = series.isna() | (series == "")
IsNull(cell) == cell.k = "nan" \/ (cell.k = "str" /\ cell.str = "")

\* The run-length encoding of utils.py:129-137: a position starts a group
\* when its mask differs from the previous one, a position's group is the
\* number of group starts up to it, and the result is the size of the
\* largest group of null positions.
LargestNullGroup(series) ==
    LET n == Len(series)
        is_null == [i \in 1..n |-> IsNull(series[i])]
        changes == [i \in 1..n |-> i = 1 \/ is_null[i] # is_null[i - 1]]
        groups == [i \in 1..n |-> Cardinality({h \in 1..i : changes[h]})]
        null_groups == {groups[i] : i \in {h \in 1..n : is_null[h]}}
        size(g) == Cardinality({i \in 1..n : is_null[i] /\ groups[i] = g})
    IN  IF null_groups = {} THEN 0
        ELSE size(CHOOSE g \in null_groups : \A q \in null_groups : size(q) <= size(g))

\* Mutant of CheckConsecutiveNans: the total number of nulls is returned.
CheckConsecutiveNansTotal(series, threshold) ==
    Cardinality({i \in 1..Len(series) : IsNull(series[i])})

\* check_consecutive_nans_optimized(series, threshold)
CheckConsecutiveNans(series, threshold) ==
    LET null_count == Cardinality({i \in 1..Len(series) : IsNull(series[i])})
    IN  IF null_count = 0 THEN 0
        ELSE IF null_count < threshold THEN null_count
        ELSE LargestNullGroup(series)

\* A message of the validator: its kind, the columns it names and its number.
Msg(type, cols, n) == [type |-> type, cols |-> cols, n |-> n]

\* What a validator call gives: the exception raised ("" when it returned),
\* and the returned is_valid, errors and warnings.
\* columns are the columns an exception names (MissingColumnError.missing_columns).
Returned(call, is_valid, errors, warnings) ==
    [call |-> call, raised |-> "", columns |-> <<>>, is_valid |-> is_valid,
     errors |-> errors, warnings |-> warnings]
RaisedNaming(call, exc, columns) ==
    [call |-> call, raised |-> exc, columns |-> columns, is_valid |-> FALSE,
     errors |-> <<>>, warnings |-> <<>>]
Raised(call, exc) == RaisedNaming(call, exc, <<>>)
NoResult == Returned("", FALSE, <<>>, <<>>)

\* The loop of validate and validate_data_gaps over the columns from
\* position j on: [raised, warnings].  Only validate_data_gaps raises.
RECURSIVE GapLoop(_, _, _, _, _)
GapLoop(df, threshold, raise, j, acc) ==
    IF j > Len(df.cols) THEN [raised |-> "", warnings |-> acc]
    ELSE LET max_gap == CheckConsecutiveNans(df.data[j], threshold)
         IN  IF max_gap >= threshold
             THEN IF raise
                  THEN [raised |-> "DataGapError", warnings |-> <<>>]
                  ELSE GapLoop(df, threshold, raise, j + 1,
                               Append(acc, Msg("gap", <<df.cols[j]>>, max_gap)))
             ELSE GapLoop(df, threshold, raise, j + 1, acc)

\* IntegrityValidator.validate(df, source_name): the list of issues.
Validate(df, threshold) == GapLoop(df, threshold, FALSE, 1, <<>>).warnings

\* IntegrityValidator.validate_data_gaps(df) over all columns.
ValidateDataGaps(df, threshold, ff) == GapLoop(df, threshold, ff, 1, <<>>)

\* [col for col in wanted if col not in df.columns]
MissingFrom(df, wanted) ==
    LET idx == KeepIdx(wanted, Range(wanted) \ Range(df.cols), 1)
    IN  [j \in 1..Len(idx) |-> wanted[idx[j]]]

\* Mutant of ValidateColumns: only the first missing column is reported.
ValidateColumnsFirstOnly(df, required_columns) ==
    LET missing == MissingFrom(df, required_columns)
    IN  [raised |-> IF missing # <<>> THEN "MissingColumnError" ELSE "",
         missing |-> IF missing # <<>> THEN <<missing[1]>> ELSE <<>>]

\* IntegrityValidator.validate_columns: the missing required columns;
\* MissingColumnError is raised when there is one.
ValidateColumns(df, required_columns) ==
    LET missing == MissingFrom(df, required_columns)
    IN  [raised |-> IF missing # <<>> THEN "MissingColumnError" ELSE "",
         missing |-> missing]

\* The strings of the model that pd.to_numeric parses.
NumericStrings == {"7"}

\* pd.to_numeric(cell, errors="coerce")
ToNumeric(cell) ==
    IF cell.k = "num" THEN cell
    ELSE IF cell.k = "str" /\ cell.str \in NumericStrings THEN Num(7)
    ELSE NaN

\* invalid_mask = numeric_values.isna() & df[col].notna()
InvalidCount(col) ==
    Cardinality({i \in 1..Len(col) : ToNumeric(col[i]).k = "nan" /\ col[i].k # "nan"})

\* IntegrityValidator.validate_numeric_columns over numeric_cols from
\* position j on: [raised, col, n, warnings]; the first column with more
\* than 50% invalid values raises, naming the column and its invalid count.
RECURSIVE NumericLoop(_, _, _, _)
NumericLoop(df, numeric_cols, j, acc) ==
    IF j > Len(numeric_cols) THEN [raised |-> "", col |-> "", n |-> 0, warnings |-> acc]
    ELSE IF numeric_cols[j] \notin Range(df.cols)
    THEN NumericLoop(df, numeric_cols, j + 1, acc)
    ELSE LET invalid_count == InvalidCount(Col(df, numeric_cols[j]))
         IN  IF invalid_count > 0
             THEN IF invalid_count * 100 > 50 * df.n
                  THEN [raised |-> "InvalidDataTypeError", col |-> numeric_cols[j],
                        n |-> invalid_count, warnings |-> <<>>]
                  ELSE NumericLoop(df, numeric_cols, j + 1,
                           Append(acc, Msg("non_numeric", <<numeric_cols[j]>>, invalid_count)))
             ELSE NumericLoop(df, numeric_cols, j + 1, acc)

ValidateNumericColumns(df, numeric_cols) == NumericLoop(df, numeric_cols, 1, <<>>)

\* IntegrityValidator.validate_timestamps(df, time_column) with all three
\* checks on: [raised, warnings].
ValidateTimestamps(df, time_column, ff) ==
    IF time_column \notin Range(df.cols) THEN [raised |-> "", warnings |-> <<>>]
    ELSE
      LET raw == Col(df, time_column)
          n == Len(raw)
          ts == [i \in 1..n |-> ToNumeric(raw[i])]
          negative_count == Cardinality({i \in 1..n : ts[i].k = "num" /\ ts[i].num < 0})
          decreasing == {i \in 2..n : /\ ts[i].k = "num" /\ ts[i - 1].k = "num"
                                       /\ ts[i].num - ts[i - 1].num < 0}
          decreasing_count == Cardinality(decreasing)
          first_decrease_idx == SetMin(decreasing) - 1
          duplicate_count == Cardinality({i \in 1..n : \E h \in 1..(i - 1) : ts[h] = ts[i]})
          w1 == IF negative_count > 0
                THEN <<Msg("negative", <<time_column>>, negative_count)>> ELSE <<>>
          w2 == IF decreasing_count > 0
                THEN <<Msg("non_monotonic", <<time_column>>, first_decrease_idx)>> ELSE <<>>
          w3 == IF duplicate_count > 0
                THEN <<Msg("duplicate", <<time_column>>, duplicate_count)>> ELSE <<>>
      IN  IF ff /\ (negative_count > 0 \/ decreasing_count > 0)
          THEN [raised |-> "TimestampError", warnings |-> <<>>]
          ELSE [raised |-> "", warnings |-> w1 \o w2 \o w3]

\* TrainRedLoader.LOADER_SPEC (trainred.py:91-127) as validate_full reads it:
\* the source names of the required and optional columns and their dtypes.
TrainRedSpec ==
    [given |-> TRUE,
     required_columns |-> <<[source_name |-> "SmO2", dtype |-> "float64"],
                            [source_name |-> "THb unfiltered", dtype |-> "float64"]>>,
     optional_columns |-> <<[source_name |-> "Device", dtype |-> "object"]>>]

\* loader_spec=None
NoLoaderSpec == [given |-> FALSE, required_columns |-> <<>>, optional_columns |-> <<>>]

SourceNames(column_specs) == [j \in 1..Len(column_specs) |-> column_specs[j].source_name]

\* The source names of the columns of all_columns declared int64 or float64.
NumericSourceNames(spec) ==
    LET all_columns == spec.required_columns \o spec.optional_columns
        idx == KeepIdx([j \in 1..Len(all_columns) |-> all_columns[j].dtype],
                       {"int64", "float64"}, 1)
    IN  [j \in 1..Len(idx) |-> all_columns[idx[j]].source_name]

\* The candidates of the time-column auto-detection (integrity.py:439).
TimeCandidates == <<"secs", "Timestamp (seconds passed)", "time", "second">>

\* The first candidate that is a column of df ("" when there is none).
DetectTimeColumn(df) ==
    LET hit == KeepIdx(TimeCandidates, Range(df.cols), 1)
    IN  IF hit = <<>> THEN "" ELSE TimeCandidates[hit[1]]

\* Mutant of Promote: strict mode marks the report invalid and leaves the
\* warnings out of the errors.
PromoteFlagOnly(errors, warnings, strict) ==
    [is_valid |-> IF strict /\ warnings # <<>> THEN FALSE ELSE errors = <<>>,
     errors |-> errors]

\* integrity.py:462-465: is_valid, and in strict mode the warnings promoted.
Promote(errors, warnings, strict) ==
    IF strict /\ warnings # <<>>
    THEN [is_valid |-> FALSE, errors |-> errors \o warnings]
    ELSE [is_valid |-> errors = <<>>, errors |-> errors]

\* IntegrityValidator.validate_full(df, source_name, loader_spec=spec) with
\* the time column auto-detected.
ValidateFull(df, spec, threshold, ff, strict) ==
    IF df.n = 0
    THEN IF ff THEN Raised("validate_full", "FileFormatError")
         ELSE Returned("validate_full", FALSE, <<Msg("empty_file", <<>>, 0)>>, <<>>)
    ELSE
      LET vc == ValidateColumns(df, SourceNames(spec.required_columns))
          e2 == IF spec.given /\ vc.raised # ""
                THEN <<Msg("MissingColumnError", vc.missing, Len(vc.missing))>> ELSE <<>>
          missing_optional == MissingFrom(df, SourceNames(spec.optional_columns))
          w2 == IF spec.given /\ missing_optional # <<>>
                THEN <<Msg("missing_optional", missing_optional, Len(missing_optional))>>
                ELSE <<>>
          vn == ValidateNumericColumns(df, NumericSourceNames(spec))
          e3 == IF spec.given /\ vn.raised # ""
                THEN <<Msg("InvalidDataTypeError", <<vn.col>>, vn.n)>> ELSE <<>>
          w3 == IF spec.given THEN vn.warnings ELSE <<>>
          time_col == DetectTimeColumn(df)
          vt == IF time_col # "" THEN ValidateTimestamps(df, time_col, ff)
                ELSE [raised |-> "", warnings |-> <<>>]
          vg == ValidateDataGaps(df, threshold, ff)
          errors == e2 \o e3
          warnings == w2 \o w3 \o vt.warnings \o vg.warnings
          p == Promote(errors, warnings, strict)
      IN  IF ff /\ spec.given /\ vc.raised # "" THEN Raised("validate_full", vc.raised)
          ELSE IF ff /\ spec.given /\ vn.raised # "" THEN Raised("validate_full", vn.raised)
          ELSE IF vt.raised # "" THEN Raised("validate_full", vt.raised)
          ELSE IF vg.raised # "" THEN Raised("validate_full", vg.raised)
          ELSE Returned("validate_full", p.is_valid, p.errors, warnings)

\* No validator call is part of the run.
ValidatorIdle ==
    /\ v_df = EmptyTable
    /\ loader_spec = NoLoaderSpec
    /\ gap_threshold = DEFAULT_GAP_THRESHOLD
    /\ fail_fast = FALSE
    /\ strict_mode = FALSE
    /\ v_required = <<>>
    /\ v_result = NoResult

----------------------------------------------------------------------------
(* Inputs of merge_files *)

\* A table whose cell in column j, row i is a number that names its table,
\* column and row (as the tests' watts = 100 + 10 * i).
Filled(cols, n, fill) ==
    [cols |-> cols, n |-> n,
     data |-> [j \in 1..Len(cols) |-> [i \in 1..n |-> Num(100 * fill + 10 * j + i)]]]

BaseColLists == {<<"secs", "watts">>, <<"watts">>}
SourceColLists ==
    {<<"watts", "smo2">>, <<"smo2">>, <<"smo2", "hr">>, <<"watts">>, <<"hr">>}

MergeBaseTables == {Filled(c, n, 1) : c \in BaseColLists, n \in 1..MaxRows}

\* Sources: no rows, one row, as long as the longest base, one row longer.
SourceLengths == {0, 1, MaxRows, MaxRows + 1}

MergeSourceFiles ==
    {ReadOk(Filled(c, n, f)) : c \in SourceColLists, n \in SourceLengths, f \in {1, 2}}
    \cup {ReadError}

MergeFileLists == UNION {[1..k -> MergeSourceFiles] : k \in 0..MaxSources}

\* The trim family: the first column is a counter with dropouts, the second
\* holds numbers, missing values and whitespace-only strings.
TrimColLists == {<<"secs", "watts">>, <<"TIME", "hr">>, <<"hr", "timestamp2">>}

TrimRows(n) ==
    [1..n -> {NaN, Num(0)} \X {NaN, Txt(" "), Num(1), Num(2)}]

TrimTables ==
    {[cols |-> c, n |-> Len(rows),
      data |-> <<[i \in 1..Len(rows) |-> IF rows[i][1] = NaN THEN NaN ELSE Num(i - 1)],
                 [i \in 1..Len(rows) |-> rows[i][2]]>>] :
        c \in TrimColLists, rows \in UNION {TrimRows(m) : m \in 0..MaxTrimRows}}

\* No pipeline around the merger: merge_files is called directly.
PipelineIdle ==
    /\ wahoo_file = [state |-> "missing", df |-> EmptyTable]
    /\ loader_files = <<>>
    /\ rm_result = "pending"
    /\ reads = <<>>
    /\ merge_calls = 0
    /\ output_file = [written |-> FALSE, df |-> EmptyTable]

InitOutputs ==
    /\ pc = "ready"
    /\ df_concat = EmptyTable
    /\ df_head = EmptyTable
    /\ df_merged = EmptyTable
    /\ ui_log = <<>>

\* merge_files called as a merge-only preview: several sources, no trimming.
InitMerge ==
    /\ base_df \in MergeBaseTables
    /\ clean_files \in MergeFileLists
    /\ validate_head = FALSE
    /\ validate_tail = FALSE
    /\ yes_no = TRUE
    /\ InitOutputs
    /\ PipelineIdle
    /\ ValidatorIdle
    /\ ToolsIdle

\* merge_files called on one table with the trimming passes chosen by the caller.
InitTrim ==
    /\ base_df \in TrimTables
    /\ clean_files = <<>>
    /\ validate_head \in BOOLEAN
    /\ validate_tail \in BOOLEAN
    /\ yes_no \in BOOLEAN
    /\ InitOutputs
    /\ PipelineIdle
    /\ ValidatorIdle
    /\ ToolsIdle

vars == <<pc, mergeVars, pipeVars, valVars, toolVars>>

NextMerge == merge_files

Spec == InitMerge /\ [][NextMerge]_vars

SpecTrim == InitTrim /\ [][NextMerge]_vars


----------------------------------------------------------------------------
(* Pipeline.run_merge (pipeline.py:237-271) and WahooLoader.get_base_dataframe *)

\* The non-base loaders in priority order (10, 20, 30).
OtherLoaders == <<"trainred", "tymewear", "garmin">>

\* What fs.read_csv(Wahoo.csv) does for each condition of the file:
\*   "ok"            a table is returned (header-only files give no rows)
\*   "os_error"      OSError (e.g. permission denied)
\*   "parser_error"  pandas.errors.ParserError (malformed lines)
\*   "empty_data"    pandas.errors.EmptyDataError (a zero-byte file)
\*   "decode_error"  UnicodeDecodeError (bytes that are not UTF-8)
WahooStates == {"missing", "ok", "os_error", "parser_error", "empty_data", "decode_error"}

\* except (OSError, pd.errors.ParserError) (wahoo.py:263): the outcomes of
\* read_csv that get_base_dataframe turns into an empty DataFrame.
CaughtByGetBase(state) == state \in {"os_error", "parser_error"}

\* get_base_dataframe: [raised, df, read]; read tells whether read_csv was called.
GetBaseDataframe(wf) ==
    IF wf.state = "missing"
    THEN [raised |-> FALSE, df |-> EmptyTable, read |-> FALSE]
    ELSE IF wf.state = "ok"
    THEN [raised |-> FALSE, df |-> wf.df, read |-> TRUE]
    ELSE IF CaughtByGetBase(wf.state)
    THEN [raised |-> FALSE, df |-> EmptyTable, read |-> TRUE]
    ELSE [raised |-> TRUE, df |-> EmptyTable, read |-> TRUE]

\* clean_files: the clean files of every loader but Wahoo, in loader order.
RECURSIVE CollectCleanFiles(_, _)
CollectCleanFiles(lf, k) ==
    IF k > Len(OtherLoaders) THEN <<>>
    ELSE lf[OtherLoaders[k]] \o CollectCleanFiles(lf, k + 1)

\* The body of run_merge as one step: the base is loaded; without a base the call ends,
\* otherwise merge_files (both trimming passes on) and save_output run.
RunMerge ==
    /\ LET b == GetBaseDataframe(wahoo_file)
           files == CollectCleanFiles(loader_files, 1)
           c == MergeConcat(b.df, files)
           h == ValidateAndTrimHead(c.df, yes_no)
           t == ValidateAndTrimTail(h.df)
       IN  IF b.raised \/ IsEmptyDf(b.df)
           THEN /\ rm_result' = IF b.raised THEN "raised" ELSE "None"
                /\ reads' = IF b.read THEN <<"Wahoo.csv">> ELSE <<>>
                /\ ui_log' = IF b.raised THEN <<>>
                             ELSE IF wahoo_file.state = "ok"
                                  THEN <<Ev("error", "run_merge")>>
                                  ELSE <<Ev("error", "get_base_dataframe"),
                                         Ev("error", "run_merge")>>
                /\ UNCHANGED <<base_df, clean_files, df_concat, df_head, df_merged,
                               merge_calls, output_file>>
           ELSE /\ base_df' = b.df
                /\ clean_files' = files
                /\ df_concat' = c.df
                /\ df_head' = h.df
                /\ df_merged' = t.df
                /\ ui_log' = c.ui \o h.ui \o t.ui \o
                             [i \in 1..5 |-> Ev("message", "save_output")]
                /\ merge_calls' = merge_calls + 1
                /\ reads' = <<"Wahoo.csv">> \o [i \in 1..Len(files) |-> "clean"]
                /\ output_file' = [written |-> TRUE, df |-> t.df]
                /\ rm_result' = "path"
    /\ UNCHANGED <<validate_head, validate_tail, yes_no, wahoo_file, loader_files>>

\* Pipeline.run_merge() called on its own.
run_merge ==
    /\ pc = "ready"
    /\ pc' = "done"
    /\ RunMerge
    /\ UNCHANGED <<valVars, toolVars>>

\* What a loader's working directory holds: no clean file, or one clean file
\* that reads as a table or fails to read.
LoaderDirs ==
    {<<>>, <<ReadError>>}
    \cup {<<ReadOk(Filled(<<"smo2", "hr">>, n, 2))>> : n \in {1, MaxRows + 1}}

WahooFiles ==
    {[state |-> st, df |-> EmptyTable] : st \in WahooStates \ {"ok"}}
    \cup {[state |-> "ok", df |-> Filled(c, n, 1)] : c \in BaseColLists, n \in 0..MaxRows}

InitPipeline ==
    /\ pc = "ready"
    /\ wahoo_file \in WahooFiles
    /\ loader_files \in [Range(OtherLoaders) -> LoaderDirs]
    /\ yes_no \in BOOLEAN
    /\ validate_head = TRUE
    /\ validate_tail = TRUE
    /\ base_df = EmptyTable
    /\ clean_files = <<>>
    /\ df_concat = EmptyTable
    /\ df_head = EmptyTable
    /\ df_merged = EmptyTable
    /\ ui_log = <<>>
    /\ rm_result = "pending"
    /\ reads = <<>>
    /\ merge_calls = 0
    /\ output_file = [written |-> FALSE, df |-> EmptyTable]
    /\ ValidatorIdle
    /\ ToolsIdle

NextPipeline == run_merge

SpecPipeline == InitPipeline /\ [][NextPipeline]_vars

----------------------------------------------------------------------------
(* The validator calls as steps, and their inputs *)

\* IntegrityValidator.validate(df, source_name)
validate ==
    /\ pc = "ready"
    /\ pc' = "done"
    /\ v_result' = Returned("validate", TRUE, <<>>, Validate(v_df, gap_threshold))
    /\ UNCHANGED valInputs
    /\ UNCHANGED <<mergeVars, pipeVars, toolVars>>

\* IntegrityValidator.validate_data_gaps(df)
validate_data_gaps ==
    /\ pc = "ready"
    /\ pc' = "done"
    /\ LET g == ValidateDataGaps(v_df, gap_threshold, fail_fast)
       IN  v_result' = IF g.raised # "" THEN Raised("validate_data_gaps", g.raised)
                       ELSE Returned("validate_data_gaps", TRUE, <<>>, g.warnings)
    /\ UNCHANGED valInputs
    /\ UNCHANGED <<mergeVars, pipeVars, toolVars>>

\* IntegrityValidator.validate_full(df, source_name, loader_spec=loader_spec)
validate_full ==
    /\ pc = "ready"
    /\ pc' = "done"
    /\ v_result' = ValidateFull(v_df, loader_spec, gap_threshold, fail_fast, strict_mode)
    /\ UNCHANGED valInputs
    /\ UNCHANGED <<mergeVars, pipeVars, toolVars>>

\* No merge is part of the run.
MergeIdle ==
    /\ base_df = EmptyTable
    /\ clean_files = <<>>
    /\ validate_head = TRUE
    /\ validate_tail = TRUE
    /\ yes_no = TRUE
    /\ InitOutputs

\* Tables checked for gaps: a numeric column with missing values and a text
\* column with missing values, empty strings and whitespace.
GapRows(n) == [1..n -> {NaN, Num(1)} \X {NaN, Txt(""), Txt(" ")}]

GapTables ==
    {[cols |-> <<"smo2", "Device">>, n |-> Len(rows),
      data |-> <<[i \in 1..Len(rows) |-> rows[i][1]],
                 [i \in 1..Len(rows) |-> rows[i][2]]>>] :
        rows \in UNION {GapRows(m) : m \in 0..MaxGapRows}}

InitGap ==
    /\ v_df \in GapTables
    /\ loader_spec = NoLoaderSpec
    /\ gap_threshold \in 1..MaxThreshold
    /\ fail_fast \in BOOLEAN
    /\ strict_mode = FALSE
    /\ v_required = <<>>
    /\ v_result = NoResult
    /\ MergeIdle
    /\ PipelineIdle
    /\ ToolsIdle

NextGap == validate \/ validate_data_gaps

SpecGap == InitGap /\ [][NextGap]_vars

\* Raw biosensor tables given to validate_full: a time column with negative,
\* repeated and text values, a measured column with missing and non-numeric
\* values, and two columns that are always filled.
FullColLists ==
    {<<"secs", "SmO2", "THb unfiltered", "Device">>,
     <<"secs", "SmO2">>,
     <<"SmO2", "THb unfiltered">>}

FullRows4(n) == [1..n -> {Num(0 - 1), Num(0), Txt("7")} \X {NaN, Num(60), Txt("x")}]

FullColumn(name, rows) ==
    [i \in 1..Len(rows) |->
        CASE name = "secs" -> rows[i][1]
          [] name = "SmO2" -> rows[i][2]
          [] name = "THb unfiltered" -> Num(12)
          [] OTHER -> Txt("dev")]

FullTables ==
    {[cols |-> c, n |-> Len(rows),
      data |-> [j \in 1..Len(c) |-> FullColumn(c[j], rows)]] :
        c \in FullColLists, rows \in UNION {FullRows4(m) : m \in 0..MaxValRows}}

InitFull ==
    /\ v_df \in FullTables
    /\ loader_spec \in {NoLoaderSpec, TrainRedSpec}
    /\ gap_threshold = MaxThreshold
    /\ fail_fast \in BOOLEAN
    /\ strict_mode \in BOOLEAN
    /\ v_required = <<>>
    /\ v_result = NoResult
    /\ MergeIdle
    /\ PipelineIdle
    /\ ToolsIdle

NextFull == validate_full

SpecFull == InitFull /\ [][NextFull]_vars

\* IntegrityValidator.validate_columns(df, required_columns)
validate_columns ==
    /\ pc = "ready"
    /\ pc' = "done"
    /\ LET vc == ValidateColumns(v_df, v_required)
       IN  v_result' = IF vc.raised # ""
                       THEN RaisedNaming("validate_columns", vc.raised, vc.missing)
                       ELSE Returned("validate_columns", TRUE, <<>>, <<>>)
    /\ UNCHANGED valInputs
    /\ UNCHANGED <<mergeVars, pipeVars, toolVars>>

\* IntegrityValidator.validate_timestamps(df) with time_column="secs" and the
\* three checks on (the defaults).
validate_timestamps ==
    /\ pc = "ready"
    /\ pc' = "done"
    /\ LET vt == ValidateTimestamps(v_df, "secs", fail_fast)
       IN  v_result' = IF vt.raised # "" THEN Raised("validate_timestamps", vt.raised)
                       ELSE Returned("validate_timestamps", TRUE, <<>>, vt.warnings)
    /\ UNCHANGED valInputs
    /\ UNCHANGED <<mergeVars, pipeVars, toolVars>>

\* Lists of required columns handed to validate_columns.
RequiredLists ==
    {<<>>, <<"SmO2">>, <<"SmO2", "THb unfiltered">>,
     <<"Device", "SmO2", "THb unfiltered", "HR">>}

InitCheck ==
    /\ v_df \in FullTables
    /\ loader_spec = NoLoaderSpec
    /\ gap_threshold = DEFAULT_GAP_THRESHOLD
    /\ fail_fast \in BOOLEAN
    /\ strict_mode = FALSE
    /\ v_required \in RequiredLists
    /\ v_result = NoResult
    /\ MergeIdle
    /\ PipelineIdle
    /\ ToolsIdle

NextCheck == validate_columns \/ validate_timestamps

SpecCheck == InitCheck /\ [][NextCheck]_vars

----------------------------------------------------------------------------
(* Claims about the merge (specification Spec) *)

\* How often the name c occurs among the columns of df.
Occurrences(df, c) == Cardinality({j \in 1..Len(df.cols) : df.cols[j] = c})

\* C1: every base column occurs exactly once in the merged table before
\* trimming, and at every base row it holds the base's value, whatever
\* same-named columns the sources carry.
C1_BaseValuesKept ==
    pc = "done" =>
        \A c \in Range(base_df.cols) :
            /\ Occurrences(df_concat, c) = 1
            /\ \A i \in 1..base_df.n : Col(df_concat, c)[i] = Col(base_df, c)[i]

\* C1 witness: a source that was read carries a base column with other values.
C1_Witness ==
    /\ pc = "done"
    /\ \E k \in 1..Len(clean_files) : \E c \in Range(base_df.cols) :
          /\ ~clean_files[k].err
          /\ c \in Range(clean_files[k].df.cols)
          /\ clean_files[k].df.n >= 1
          /\ Col(clean_files[k].df, c)[1] # Col(base_df, c)[1]

\* Two tables hold the same columns (by name), rows and values.
SameValues(d1, d2) ==
    /\ Range(d1.cols) = Range(d2.cols)
    /\ d1.n = d2.n
    /\ \A c \in Range(d1.cols) : Col(d1, c) = Col(d2, c)

Reverse(s) == [i \in 1..Len(s) |-> s[Len(s) + 1 - i]]

\* The column names two files share that the base does not have.
SharedNewColumns(f1, f2, base) ==
    (Range(f1.df.cols) \cap Range(f2.df.cols)) \ Range(base.cols)

\* C2 as claimed: merging [A, B] and [B, A] into the same base gives
\* identical values in every column, for any two sources.
C2_OrderIndependentAnySources ==
    (pc = "done" /\ Len(clean_files) = 2) =>
        SameValues(df_merged, MergeConcat(base_df, Reverse(clean_files)).df)

\* C2 amended: merging [A, B] and [B, A] gives identical values in every
\* column when A and B share no column name that the base lacks.
C2_OrderIndependentDisjoint ==
    (/\ pc = "done"
     /\ Len(clean_files) = 2
     /\ SharedNewColumns(clean_files[1], clean_files[2], base_df) = {}) =>
        SameValues(df_merged, MergeConcat(base_df, Reverse(clean_files)).df)

\* C2 witness: two sources of different lengths, each contributing a column
\* of its own, one of them also carrying a base column.
C2_Witness ==
    /\ pc = "done"
    /\ Len(clean_files) = 2
    /\ ~clean_files[1].err /\ ~clean_files[2].err
    /\ SharedNewColumns(clean_files[1], clean_files[2], base_df) = {}
    /\ "smo2" \in Range(clean_files[1].df.cols)
    /\ "hr" \in Range(clean_files[2].df.cols)
    /\ "smo2" \in Range(df_merged.cols) /\ "hr" \in Range(df_merged.cols)
    /\ clean_files[1].df.n > clean_files[2].df.n
    /\ clean_files[2].df.n >= 1

\* C3 as claimed: before trimming the merged table has exactly the base's
\* row count, whatever the sources' lengths.
C3_RowCountIsBase ==
    pc = "done" => df_concat.n = base_df.n


\* C3 case: a source that was read has more rows than the base and
\* contributes a column.
C3_LongerSourceMerged ==
    /\ pc = "done"
    /\ \E k \in 1..Len(clean_files) :
          /\ ~clean_files[k].err
          /\ clean_files[k].df.n > base_df.n
          /\ Range(clean_files[k].df.cols) \ Range(base_df.cols) # {}

----------------------------------------------------------------------------
(* Claims about trimming (specification SpecTrim) *)

\* A missing value as the claims read it: NaN/None, or a blank or
\* whitespace-only string.
MissingCell(cell) == cell = NaN \/ cell = Txt("") \/ cell = Txt(" ")

\* The rows (0-based) of df with no missing value in any column.
FullRows(df) ==
    {r \in 0..(df.n - 1) : \A j \in 1..Len(df.cols) : ~MissingCell(df.data[j][r + 1])}

\* C4 as claimed: with head trim confirmed and tail trim on, every row of
\* the returned table has no missing value.
C4_EveryRetainedRowComplete ==
    (pc = "done" /\ validate_head /\ validate_tail /\ yes_no) =>
        FullRows(df_merged) = 0..(df_merged.n - 1)

\* C4 amended: with head trim confirmed and tail trim on, the returned table
\* ends at a fully complete row unless it holds no complete row at all.
C4_EndsAtCompleteRow ==
    (pc = "done" /\ validate_head /\ validate_tail /\ yes_no) =>
        \/ FullRows(df_merged) = {}
        \/ (df_merged.n - 1) \in FullRows(df_merged)

\* C4 witness: both passes changed the table and an incomplete row is retained.
C4_Witness ==
    /\ pc = "done" /\ validate_head /\ validate_tail /\ yes_no
    /\ df_head # df_concat
    /\ df_merged.n < df_head.n
    /\ FullRows(df_merged) # 0..(df_merged.n - 1)
    /\ (df_merged.n - 1) \in FullRows(df_merged)

\* C5: tail trim returns the prefix that ends at the last complete row; with
\* no complete row the table is returned unchanged.
C5_TailTrimIsPrefix ==
    (pc = "done" /\ validate_tail) =>
        IF FullRows(df_head) = {}
        THEN df_merged = df_head
        ELSE LET last == CHOOSE r \in FullRows(df_head) :
                            \A q \in FullRows(df_head) : q <= r
             IN  /\ df_merged.n = last + 1
                 /\ df_merged.cols = df_head.cols
                 /\ \A j \in 1..Len(df_head.cols) : \A i \in 1..(last + 1) :
                        df_merged.data[j][i] = df_head.data[j][i]
                 /\ \A j \in 1..Len(df_head.cols) : Len(df_merged.data[j]) = last + 1

\* C5 witness: rows were dropped after a last complete row, and a retained
\* row holds a whitespace-only string.
C5_Witness ==
    /\ pc = "done" /\ validate_tail
    /\ df_merged.n < df_head.n
    /\ df_merged.n >= 2
    /\ \E j \in 1..Len(df_merged.cols) : \E i \in 1..df_merged.n :
          df_merged.data[j][i] = Txt(" ")
    /\ \E j \in 1..Len(df_head.cols) : df_head.data[j][df_head.n] = Txt(" ")

NumAsks(log) == Cardinality({i \in 1..Len(log) : log[i].kind = "ask_yes_no"})

\* C6: the yes/no question is asked only by the head-trim step, exactly when
\* that step runs, a complete row exists and row 0 is not complete; a "no"
\* leaves the table unchanged by the head step; the tail step never asks.
C6_HeadTrimConsentGated ==
    pc = "done" =>
        /\ \A i \in 1..Len(ui_log) :
              ui_log[i].kind = "ask_yes_no" => ui_log[i].by = "head"
        /\ NumAsks(ui_log) =
              IF validate_head /\ FullRows(df_concat) # {} /\ 0 \notin FullRows(df_concat)
              THEN 1 ELSE 0
        /\ ~yes_no => df_head = df_concat

\* C6 witness: the question was asked and answered no, and the tail step
\* still removed rows.
C6_Witness ==
    /\ pc = "done"
    /\ NumAsks(ui_log) = 1
    /\ ~yes_no
    /\ df_head = df_concat
    /\ df_merged.n < df_head.n

\* The time columns among the column names of the model.
TimeColumnNames == {"secs", "TIME"}

\* C7: a confirmed head trim with first complete row k > 0 keeps the row
\* count and the time columns, and moves every other column up by k rows,
\* leaving its last k rows missing.
C7_HeadTrimShiftsDataColumns ==
    (/\ pc = "done" /\ validate_head /\ yes_no
     /\ FullRows(df_concat) # {} /\ 0 \notin FullRows(df_concat)) =>
        LET k == CHOOSE r \in FullRows(df_concat) : \A q \in FullRows(df_concat) : r <= q
        IN  /\ df_head.n = df_concat.n
            /\ df_head.cols = df_concat.cols
            /\ \A j \in 1..Len(df_concat.cols) :
                  IF df_concat.cols[j] \in TimeColumnNames
                  THEN df_head.data[j] = df_concat.data[j]
                  ELSE /\ Len(df_head.data[j]) = df_concat.n
                       /\ \A i \in 1..df_concat.n :
                             df_head.data[j][i] =
                                 IF i + k <= df_concat.n
                                 THEN df_concat.data[j][i + k]
                                 ELSE NaN

\* C7 witness: a confirmed shift by k = 2 of a table with an upper-case time
\* column whose first value is present.
C7_Witness ==
    /\ pc = "done" /\ validate_head /\ yes_no
    /\ FullRows(df_concat) # {} /\ 0 \notin FullRows(df_concat)
    /\ 1 \notin FullRows(df_concat)
    /\ df_concat.cols[1] = "TIME"
    /\ df_concat.data[1][1] = Num(0)
    /\ df_head.data[2][1] = df_concat.data[2][3]
    /\ df_head # df_concat


----------------------------------------------------------------------------
(* Claims about run_merge (specification SpecPipeline) *)

\* The base is absent: Wahoo.csv is missing, cannot be read, or has no rows.
BaseAbsent == wahoo_file.state # "ok" \/ IsEmptyDf(wahoo_file.df)

\* C8: when the base is absent run_merge returns None, reads no source,
\* calls no merge and writes no output; with a base present it returns the
\* output path whatever sources are missing.
C8_BaseAbsenceReturnsNone ==
    pc = "done" =>
        IF BaseAbsent
        THEN /\ rm_result = "None"
             /\ \A i \in 1..Len(reads) : reads[i] = "Wahoo.csv"
             /\ merge_calls = 0
             /\ ~output_file.written
        ELSE rm_result = "path"

\* C8 case: Wahoo.csv exists as a zero-byte file and run_merge has run.
C8_ZeroByteBase ==
    pc = "done" /\ wahoo_file.state = "empty_data"


----------------------------------------------------------------------------
(* Claims about the validator (specifications SpecGap and SpecFull) *)

\* A null as the claims read it: a missing value or the empty string.
NullCell(cell) == cell = NaN \/ cell = Txt("")

\* The length of the longest run of consecutive nulls of a column.
LongestNullRun(col) ==
    LET runs == {len \in 0..Len(col) :
                    \E start \in 1..(Len(col) - len + 1) :
                        \A i \in start..(start + len - 1) : NullCell(col[i])}
    IN  CHOOSE len \in runs : \A q \in runs : q <= len

\* The gap warnings of a result that name column c.
GapWarnings(res, c) ==
    {i \in 1..Len(res.warnings) :
        res.warnings[i].type = "gap" /\ res.warnings[i].cols = <<c>>}

\* C9: validate and validate_data_gaps warn about a column exactly when its
\* longest null run reaches gap_threshold, once per column, naming the column
\* and the length of the longest run.
C9_GapWarningBoundary ==
    (/\ pc = "done"
     /\ v_result.call \in {"validate", "validate_data_gaps"}
     /\ v_result.raised = "") =>
        \A c \in Range(v_df.cols) :
            LET run == LongestNullRun(Col(v_df, c))
                w == GapWarnings(v_result, c)
            IN  IF run >= gap_threshold
                THEN /\ Cardinality(w) = 1
                     /\ \A i \in w : v_result.warnings[i].n = run
                ELSE w = {}

\* C9 witness: one column whose nulls number gap_threshold but whose longest
\* run is gap_threshold - 1 (no warning), one whose longest run is exactly
\* gap_threshold (one warning).
C9_Witness ==
    /\ pc = "done"
    /\ v_result.call = "validate"
    /\ gap_threshold >= 2
    /\ LongestNullRun(Col(v_df, "Device")) = gap_threshold - 1
    /\ Cardinality({i \in 1..v_df.n : NullCell(Col(v_df, "Device")[i])}) >= gap_threshold
    /\ GapWarnings(v_result, "Device") = {}
    /\ LongestNullRun(Col(v_df, "smo2")) = gap_threshold
    /\ Cardinality(GapWarnings(v_result, "smo2")) = 1

\* C10: a report returned by validate_full is valid exactly when it has no
\* error, and in strict mode every warning is also among the errors.
C10_ValidIffNoErrors ==
    (pc = "done" /\ v_result.call = "validate_full" /\ v_result.raised = "") =>
        /\ v_result.is_valid = (v_result.errors = <<>>)
        /\ strict_mode => Range(v_result.warnings) \subseteq Range(v_result.errors)

\* C10 witness: a strict, accumulating validation of a non-empty table whose
\* only findings are warnings, so the report is invalid through them alone.
C10_Witness ==
    /\ pc = "done" /\ v_result.call = "validate_full" /\ v_result.raised = ""
    /\ strict_mode /\ ~fail_fast
    /\ v_df.n > 0
    /\ v_result.warnings # <<>>
    /\ v_result.errors = v_result.warnings
    /\ ~v_result.is_valid

----------------------------------------------------------------------------
(* Claims about validate_columns and validate_timestamps (SpecCheck) *)

\* C11: validate_columns raises the missing-column error exactly when a
\* required column is absent from the table, and the error lists the absent
\* required columns, in required order, and no column that is present.
C11_MissingColumnsExact ==
    (pc = "done" /\ v_result.call = "validate_columns") =>
        LET absent(c) == c \notin Range(v_df.cols)
        IN  /\ (v_result.raised = "MissingColumnError") <=>
                   (\E c \in Range(v_required) : absent(c))
            /\ v_result.raised \in {"", "MissingColumnError"}
            /\ v_result.columns = SelectSeq(v_required, absent)

\* C11 witness: two required columns are absent and one between them is
\* present; the error names the two, in required order.
C11_Witness ==
    /\ pc = "done" /\ v_result.call = "validate_columns"
    /\ v_required = <<"Device", "SmO2", "THb unfiltered", "HR">>
    /\ v_df.cols = <<"secs", "SmO2">>
    /\ v_result.raised = "MissingColumnError"
    /\ v_result.columns = <<"Device", "THb unfiltered", "HR">>

\* The parsed values of the time column "secs" (a missing value where the
\* cell does not parse as a number).
Secs == [i \in 1..v_df.n |-> ToNumeric(Col(v_df, "secs")[i])]

HasNegative == \E i \in 1..v_df.n : Secs[i].k = "num" /\ Secs[i].num < 0

HasDecrease ==
    \E i \in 2..v_df.n :
        Secs[i].k = "num" /\ Secs[i - 1].k = "num" /\ Secs[i].num < Secs[i - 1].num

HasDuplicate == \E i, h \in 1..v_df.n : h < i /\ Secs[h] = Secs[i]

WarningTypes(res) == {res.warnings[i].type : i \in 1..Len(res.warnings)}

\* C12 as claimed: in default mode each timestamp problem that is present
\* (negative, decreasing, duplicate values) adds its own warning; in
\* fail-fast mode each problem that is present, also alone, raises a
\* timestamp error.
C12_EachProblemWarnsOrRaises ==
    (/\ pc = "done" /\ v_result.call = "validate_timestamps"
     /\ "secs" \in Range(v_df.cols)) =>
        IF fail_fast
        THEN (HasNegative \/ HasDecrease \/ HasDuplicate) <=>
                 (v_result.raised = "TimestampError")
        ELSE /\ v_result.raised = ""
             /\ HasNegative <=> ("negative" \in WarningTypes(v_result))
             /\ HasDecrease <=> ("non_monotonic" \in WarningTypes(v_result))
             /\ HasDuplicate <=> ("duplicate" \in WarningTypes(v_result))

\* C12 case: fail-fast mode, duplicate timestamps are the only problem.
C12_DuplicatesOnlyFailFast ==
    /\ pc = "done" /\ v_result.call = "validate_timestamps"
    /\ "secs" \in Range(v_df.cols)
    /\ fail_fast
    /\ HasDuplicate /\ ~HasNegative /\ ~HasDecrease

\* What holds of validate_timestamps: the default mode warns once per
\* problem present; fail-fast mode raises exactly when a negative or a
\* decreasing value is present, and only warns about duplicates.
C12_DuplicatesNeverRaise ==
    (/\ pc = "done" /\ v_result.call = "validate_timestamps"
     /\ "secs" \in Range(v_df.cols)) =>
        /\ (v_result.raised = "TimestampError") <=>
               (fail_fast /\ (HasNegative \/ HasDecrease))
        /\ v_result.raised = "" =>
               /\ HasNegative <=> ("negative" \in WarningTypes(v_result))
               /\ HasDecrease <=> ("non_monotonic" \in WarningTypes(v_result))
               /\ HasDuplicate <=> ("duplicate" \in WarningTypes(v_result))

----------------------------------------------------------------------------
(* interpolate_time_gaps (interpolation.py:13-158) *)

MaxInterpRows == 5  \* rows of a table given to interpolate_time_gaps
MaxGap == 2         \* largest max_gap of the model

\* The limit argument left out (limit=None): no bound on the run filled.
NoLimit == 0

\* series.isna(): a cell is NaN/None; a string, also an empty one, is not.
IsNa(cell) == cell.k = "nan"

\* The last position before p, and the first after p, that holds a value
\* (0 when there is none).
PrevValid(s, p) ==
    LET V == {i \in 1..(p - 1) : ~IsNa(s[i])} IN IF V = {} THEN 0 ELSE SetMax(V)
NextValid(s, p) ==
    LET V == {j \in (p + 1)..Len(s) : ~IsNa(s[j])} IN IF V = {} THEN 0 ELSE SetMin(V)

WithinLimit(distance, limit) == limit = NoLimit \/ distance <= limit

\* Mutant of InterpolateLinear: only runs enclosed by two values are filled
\* (as with limit_area="inside").
InterpolateLinearInside(s, limit) ==
    [p \in 1..Len(s) |->
        LET i == PrevValid(s, p)
            j == NextValid(s, p)
        IN  IF ~IsNa(s[p]) \/ i = 0 \/ j = 0 \/ ~WithinLimit(p - i, limit) THEN s[p]
            ELSE Num(s[i].num + ((s[j].num - s[i].num) * (p - i)) \div (j - i))]

\* series.interpolate(method="linear", limit=limit): the direction is forward,
\* so a run before the first value stays, a run between two values gets the
\* points of the line between them, a run after the last value repeats it,
\* and of each run at most limit positions are filled.
InterpolateLinear(s, limit) ==
    [p \in 1..Len(s) |->
        LET i == PrevValid(s, p)
            j == NextValid(s, p)
        IN  IF ~IsNa(s[p]) \/ i = 0 \/ ~WithinLimit(p - i, limit) THEN s[p]
            ELSE IF j = 0 THEN s[i]
            ELSE Num(s[i].num + ((s[j].num - s[i].num) * (p - i)) \div (j - i))]

\* series.ffill(limit=limit)
FFill(s, limit) ==
    [p \in 1..Len(s) |->
        LET i == PrevValid(s, p)
        IN  IF ~IsNa(s[p]) \/ i = 0 \/ ~WithinLimit(p - i, limit) THEN s[p] ELSE s[i]]

\* series.bfill(limit=limit)
BFill(s, limit) ==
    [p \in 1..Len(s) |->
        LET j == NextValid(s, p)
        IN  IF ~IsNa(s[p]) \/ j = 0 \/ ~WithinLimit(j - p, limit) THEN s[p] ELSE s[j]]

\* The if/elif chain over method (interpolation.py:67-72 and 149-156); a
\* method it does not name leaves the series as it is.
FillSeries(s, method, limit) ==
    CASE method = "linear"          -> InterpolateLinear(s, limit)
      [] method \in {"ffill", "pad"} -> FFill(s, limit)
      [] method = "bfill"           -> BFill(s, limit)
      [] OTHER                      -> s

\* The groups of consecutive NaN positions of a series: first and last position.
NanGroups(s) ==
    {g \in [first : 1..Len(s), last : 1..Len(s)] :
        /\ g.first <= g.last
        /\ \A p \in g.first..g.last : IsNa(s[p])
        /\ (g.first = 1 \/ ~IsNa(s[g.first - 1]))
        /\ (g.last = Len(s) \/ ~IsNa(s[g.last + 1]))}

\* _get_consecutive_lengths(nan_mask), as the set of the lengths.
GetConsecutiveLengths(s) == {g.last - g.first + 1 : g \in NanGroups(s)}

\* _interpolate_small_gaps: each NaN group of at most max_gap positions is
\* replaced by the method applied to that slice alone.
InterpolateSmallGaps(series, max_gap, method) ==
    [p \in 1..Len(series) |->
        IF \E g \in NanGroups(series) :
              p \in g.first..g.last /\ g.last - g.first + 1 <= max_gap
        THEN LET g == CHOOSE g \in NanGroups(series) : p \in g.first..g.last
             IN  FillSeries(SubSeq(series, g.first, g.last), method, NoLimit)[p - g.first + 1]
        ELSE series[p]]

\* Mutant of InterpolateColumn: the whole column is always filled in one pass.
InterpolateColumnOnePass(series, max_gap, method) ==
    FillSeries(series, method, max_gap)

\* The body of the loop over columns for a column with a NaN
\* (interpolation.py:61-79).
InterpolateColumn(series, max_gap, method) ==
    IF \A len \in GetConsecutiveLengths(series) : len <= max_gap
    THEN FillSeries(series, method, max_gap)
    ELSE InterpolateSmallGaps(series, max_gap, method)

\* select_dtypes(include=[np.number]): a column of numbers and NaN.
IsNumericColumn(col) == \A i \in 1..Len(col) : col[i].k \in {"num", "nan"}

\* columns=None: the numeric columns but the time column.
ProcessedColumns(df, time_col) ==
    {j \in 1..Len(df.cols) : IsNumericColumn(df.data[j]) /\ df.cols[j] # time_col}

NanCount(col) == Cardinality({i \in 1..Len(col) : IsNa(col[i])})

RECURSIVE SumOver(_, _)
SumOver(f, S) ==
    IF S = {} THEN 0
    ELSE LET x == CHOOSE x \in S : TRUE IN f[x] + SumOver(f, S \ {x})

\* interpolate_time_gaps(df, time_col="secs", method, max_gap, columns=None)
InterpolateTimeGaps(df, method, max_gap) ==
    IF method = "none" THEN [df |-> df, total_filled |-> 0]
    ELSE
      LET P == ProcessedColumns(df, "secs")
          data == [j \in 1..Len(df.cols) |->
                      IF j \in P /\ NanCount(df.data[j]) > 0
                      THEN InterpolateColumn(df.data[j], max_gap, method)
                      ELSE df.data[j]]
          filled == [j \in 1..Len(df.cols) |-> NanCount(df.data[j]) - NanCount(data[j])]
      IN  [df |-> [df EXCEPT !.data = data], total_filled |-> SumOver(filled, P)]

interpolate_time_gaps ==
    /\ pc = "ready"
    /\ pc' = "done"
    /\ ip_result' = InterpolateTimeGaps(ip_df, ip_method, ip_max_gap)
    /\ UNCHANGED <<ip_df, ip_method, ip_max_gap>>
    /\ UNCHANGED <<mergeVars, pipeVars, valVars, fsVars, batchVars, procVars, importVars, headerVars,
                   fullVars, regVars, outVars, garminVars, watchVars,
                   nansVars>>

\* Tables to interpolate: a time column that may lack its first value, a
\* measured column with dropouts anywhere, and, in some tables, a text column
\* whose first value is missing.  The measured values are multiples of 60, so
\* the points of a line across up to five rows are whole numbers.
InterpColLists == {<<"secs", "watts">>, <<"secs", "watts", "Device">>}

InterpColumn(name, w, secs0) ==
    [i \in 1..Len(w) |->
        CASE name = "secs"  -> IF i = 1 /\ ~secs0 THEN NaN ELSE Num(i - 1)
          [] name = "watts" -> w[i]
          [] OTHER          -> IF i = 1 THEN NaN ELSE Txt("dev")]

InterpTables ==
    {[cols |-> c, n |-> Len(w),
      data |-> [j \in 1..Len(c) |-> InterpColumn(c[j], w, secs0)]] :
        c \in InterpColLists, secs0 \in BOOLEAN,
        w \in UNION {[1..m -> {NaN, Num(60), Num(180)}] : m \in 0..MaxInterpRows}}

Methods == {"linear", "ffill", "pad", "bfill", "none"}

InitInterp ==
    /\ ip_df \in InterpTables
    /\ ip_method \in Methods
    /\ ip_max_gap \in 1..MaxGap
    /\ ip_result = [df |-> EmptyTable, total_filled |-> 0]
    /\ MergeIdle
    /\ PipelineIdle
    /\ ValidatorIdle
    /\ FsIdle
    /\ BatchIdle
    /\ ProcIdle
    /\ ImportIdle
    /\ HeaderIdle
    /\ FullRunIdle
    /\ RegistryIdle
    /\ OutputIdle
    /\ GarminIdle
    /\ WatchIdle
    /\ NansIdle

NextInterp == interpolate_time_gaps

SpecInterp == InitInterp /\ [][NextInterp]_vars

----------------------------------------------------------------------------
(* Claims about interpolate_time_gaps (specification SpecInterp) *)

\* The columns interpolate_time_gaps processes by default: every column of
\* numbers (and missing values) but the time column.
NumericColumns(df) ==
    {j \in 1..Len(df.cols) :
        /\ df.cols[j] # "secs"
        /\ \A i \in 1..df.n : df.data[j][i].k # "str"}

\* The length of the run of missing values that position p of col lies in
\* (0 when col[p] is present).
NullRunAt(col, p) ==
    Cardinality({q \in 1..Len(col) :
        \A r \in (IF q <= p THEN q ELSE p)..(IF q <= p THEN p ELSE q) : col[r] = NaN})

LongestRun(col) ==
    IF col = <<>> THEN 0
    ELSE LET lens == {NullRunAt(col, p) : p \in 1..Len(col)}
         IN  CHOOSE m \in lens : \A q \in lens : q <= m

NullsIn(col) == {p \in 1..Len(col) : col[p] = NaN}

FillMethods == {"linear", "ffill", "bfill"}

\* C13 as claimed: for a fill method and max_gap g >= 1, every processed
\* numeric column whose longest null run is at most g has no null in the
\* returned table, wherever its runs lie.
C13_ShortRunsAllFilled ==
    (pc = "done" /\ ip_method \in FillMethods) =>
        \A j \in NumericColumns(ip_df) :
            LongestRun(ip_df.data[j]) <= ip_max_gap =>
                NullsIn(ip_result.df.data[j]) = {}

\* The side a method takes its values from holds a value: the first cell for
\* linear and forward-fill, the last cell for backward-fill.
FillSidePresent(col, method) ==
    \/ col = <<>>
    \/ method \in {"linear", "ffill"} /\ col[1] # NaN
    \/ method = "bfill" /\ col[Len(col)] # NaN

\* C13 amended: every processed numeric column whose longest null run is at
\* most g, and which has no null run at its start (linear, forward-fill) or
\* at its end (backward-fill), has no null in the returned table; a run at
\* that edge stays null.
C13_ShortRunsFilledFromFillSide ==
    (pc = "done" /\ ip_method \in FillMethods) =>
        \A j \in NumericColumns(ip_df) :
            LongestRun(ip_df.data[j]) <= ip_max_gap =>
                IF FillSidePresent(ip_df.data[j], ip_method)
                THEN NullsIn(ip_result.df.data[j]) = {}
                ELSE \A p \in NullsIn(ip_df.data[j]) :
                        (IF ip_method = "bfill"
                         THEN NextValid(ip_df.data[j], p) = 0
                         ELSE PrevValid(ip_df.data[j], p) = 0)
                            => ip_result.df.data[j][p] = NaN

\* C13 witness: linear interpolation of a column with a run between two
\* values and a run of g = 2 at its end; both are filled and counted.
C13_Witness ==
    /\ pc = "done" /\ ip_method = "linear" /\ ip_max_gap = 2
    /\ ip_df.n = 5
    /\ Col(ip_df, "watts") = <<Num(60), NaN, Num(180), NaN, NaN>>
    /\ Col(ip_result.df, "watts") = <<Num(60), Num(120), Num(180), Num(180), Num(180)>>
    /\ ip_result.total_filled = 3

\* C14: every position of a null run longer than max_gap is still null in
\* the returned table, for every method and every column.
C14_LongRunsStayNull ==
    pc = "done" =>
        \A j \in 1..Len(ip_df.cols) : \A p \in 1..ip_df.n :
            NullRunAt(ip_df.data[j], p) > ip_max_gap =>
                ip_result.df.data[j][p] = NaN

\* C14 witness: a run of three between two values with max_gap = 2, still
\* missing after forward-fill.
C14_Witness ==
    /\ pc = "done" /\ ip_method = "ffill" /\ ip_max_gap = 2
    /\ Col(ip_df, "watts") = <<Num(60), NaN, NaN, NaN, Num(180)>>
    /\ \A p \in 2..4 : Col(ip_result.df, "watts")[p] = NaN

----------------------------------------------------------------------------
(* RealFileSystem (filesystem.py:15-94) *)

MaxFsCalls == 3     \* calls made on one RealFileSystem

\* The paths of the model: two files of a directory that exists, and a
\* directory that may not exist yet.
FsFiles == {"source.txt", "test.csv"}
FsDirs == {"new_folder"}
FsPaths == FsFiles \cup FsDirs

\* What a path holds: nothing, a directory, or a file with these contents
\* ("raw" as found, "table" as written by write_csv).
Absent == "absent"
Directory == "dir"
FileContents == {"raw", "table"}

Exists(d, path) == d[path] # Absent
IsFile(d, path) == d[path] \in FileContents

\* One call on the filesystem and its outcome: ret is "None", "True",
\* "False", the contents read, or "raised".
Call(op, src, dst, ret) == [op |-> op, src |-> src, dst |-> dst, ret |-> ret]

\* A line of the operations log (the f-strings of filesystem.py:59-87).
LogLine(op, src, dst) == [op |-> op, src |-> src, dst |-> dst]

\* _log_operation(operation): appended only in dry-run mode.
LogOperation(dry, log, line) == IF dry THEN Append(log, line) ELSE log

\* shutil.copy2(src, dst) for a file path dst other than src.
RealCopy(d, src, dst) ==
    IF IsFile(d, src) /\ d[dst] # Directory
    THEN [disk |-> [d EXCEPT ![dst] = d[src]], ret |-> "None"]
    ELSE [disk |-> d, ret |-> "raised"]

\* shutil.move(src, dst) for a file path dst other than src (a rename that
\* replaces dst).
RealMove(d, src, dst) ==
    IF IsFile(d, src) /\ d[dst] # Directory
    THEN [disk |-> [d EXCEPT ![dst] = d[src], ![src] = Absent], ret |-> "None"]
    ELSE [disk |-> d, ret |-> "raised"]

\* path.unlink()
RealRemove(d, path) ==
    IF IsFile(d, path)
    THEN [disk |-> [d EXCEPT ![path] = Absent], ret |-> "None"]
    ELSE [disk |-> d, ret |-> "raised"]

\* df.to_csv(path)
RealWriteCsv(d, path) ==
    IF d[path] # Directory
    THEN [disk |-> [d EXCEPT ![path] = "table"], ret |-> "None"]
    ELSE [disk |-> d, ret |-> "raised"]

\* path.mkdir(parents=True, exist_ok=True)
RealMkdir(d, path) ==
    IF d[path] = Absent THEN [disk |-> [d EXCEPT ![path] = Directory], ret |-> "None"]
    ELSE IF d[path] = Directory THEN [disk |-> d, ret |-> "None"]
    ELSE [disk |-> d, ret |-> "raised"]

\* Mutant of MkdirLogged: a dry-run mkdir is always logged.
MkdirLoggedAlways(d, path) == TRUE

\* if not path.exists(): the dry-run mkdir is logged.
MkdirLogged(d, path) == ~Exists(d, path)

\* The common shape of the five mutating methods: in dry-run mode the line
\* is logged (when log_it holds) and nothing else happens.
Mutating(op, src, dst, log_it, real) ==
    /\ Len(fs_calls) < MaxFsCalls
    /\ IF dry_run
       THEN /\ operations_log' = IF log_it
                                 THEN LogOperation(dry_run, operations_log,
                                                   LogLine(op, src, dst))
                                 ELSE operations_log
            /\ disk' = disk
            /\ fs_calls' = Append(fs_calls, Call(op, src, dst, "None"))
       ELSE /\ operations_log' = operations_log
            /\ disk' = real.disk
            /\ fs_calls' = Append(fs_calls, Call(op, src, dst, real.ret))
    /\ UNCHANGED <<dry_run, disk0>>
    /\ UNCHANGED <<pc, mergeVars, pipeVars, valVars, interpVars, batchVars, procVars, importVars, headerVars,
                   fullVars, regVars, outVars, garminVars, watchVars,
                   nansVars>>

fs_copy ==
    \E src \in FsFiles : \E dst \in FsFiles \ {src} :
        Mutating("COPY", src, dst, TRUE, RealCopy(disk, src, dst))

fs_move ==
    \E src \in FsFiles : \E dst \in FsFiles \ {src} :
        Mutating("MOVE", src, dst, TRUE, RealMove(disk, src, dst))

fs_remove ==
    \E path \in FsFiles : Mutating("DELETE", path, "", TRUE, RealRemove(disk, path))

fs_write_csv ==
    \E path \in FsFiles : Mutating("WRITE CSV", path, "", TRUE, RealWriteCsv(disk, path))

fs_mkdir ==
    \E path \in FsPaths :
        Mutating("MKDIR", path, "", MkdirLogged(disk, path), RealMkdir(disk, path))

\* The read-only methods: the same in both modes.
ReadOnly(op, path, ret) ==
    /\ Len(fs_calls) < MaxFsCalls
    /\ fs_calls' = Append(fs_calls, Call(op, path, "", ret))
    /\ UNCHANGED <<dry_run, disk, disk0, operations_log>>
    /\ UNCHANGED <<pc, mergeVars, pipeVars, valVars, interpVars, batchVars, procVars, importVars, headerVars,
                   fullVars, regVars, outVars, garminVars, watchVars,
                   nansVars>>

fs_exists ==
    \E path \in FsPaths :
        ReadOnly("exists", path, IF Exists(disk, path) THEN "True" ELSE "False")

fs_read_csv ==
    \E path \in FsFiles :
        ReadOnly("read_csv", path, IF IsFile(disk, path) THEN disk[path] ELSE "raised")

\* The disks a RealFileSystem may be constructed on.
InitialDisks ==
    {d \in [FsPaths -> {Absent, Directory, "raw"}] :
        /\ \A f \in FsFiles : d[f] # Directory
        /\ \A q \in FsDirs : d[q] # "raw"}

InitFs ==
    /\ dry_run \in BOOLEAN
    /\ disk \in InitialDisks
    /\ disk0 = disk
    /\ operations_log = <<>>
    /\ fs_calls = <<>>
    /\ MergeIdle
    /\ PipelineIdle
    /\ ValidatorIdle
    /\ InterpIdle
    /\ BatchIdle
    /\ ProcIdle
    /\ ImportIdle
    /\ HeaderIdle
    /\ FullRunIdle
    /\ RegistryIdle
    /\ OutputIdle
    /\ GarminIdle
    /\ WatchIdle
    /\ NansIdle

NextFs ==
    \/ fs_copy
    \/ fs_move
    \/ fs_remove
    \/ fs_write_csv
    \/ fs_mkdir
    \/ fs_exists
    \/ fs_read_csv

SpecFs == InitFs /\ [][NextFs]_vars

----------------------------------------------------------------------------
(* Claims about RealFileSystem (specification SpecFs) *)

MutatingOps == {"COPY", "MOVE", "DELETE", "WRITE CSV", "MKDIR"}

\* The log lines a sequence of calls must leave on a disk that never changes:
\* one per mutating call, in call order, a mkdir only for a path not there.
RECURSIVE ExpectedLog(_, _)
ExpectedLog(calls, d) ==
    IF calls = <<>> THEN <<>>
    ELSE LET c == Head(calls)
             logged == /\ c.op \in MutatingOps
                       /\ (c.op = "MKDIR" => d[c.src] = "absent")
         IN  (IF logged THEN <<[op |-> c.op, src |-> c.src, dst |-> c.dst]>> ELSE <<>>)
             \o ExpectedLog(Tail(calls), d)

\* C15: in dry-run mode no sequence of copy, move, remove, write_csv and
\* mkdir calls changes the real filesystem, and every such call is logged in
\* call order (a mkdir only when its path does not exist); the read-only
\* calls answer from the real filesystem in both modes; outside dry-run mode
\* nothing is logged.
C15_DryRunLogsOnly ==
    /\ dry_run => /\ disk = disk0
                  /\ operations_log = ExpectedLog(fs_calls, disk0)
    /\ ~dry_run => operations_log = <<>>
    /\ fs_calls # <<>> =>
          LET c == fs_calls[Len(fs_calls)]
          IN  /\ c.op = "exists" =>
                    c.ret = (IF disk[c.src] # "absent" THEN "True" ELSE "False")
              /\ c.op = "read_csv" =>
                    c.ret = (IF disk[c.src] \in {"raw", "table"} THEN disk[c.src]
                             ELSE "raised")

\* C15 witness: a dry run in which a file was "copied" over a missing one,
\* "removed", and a directory "made" that did not exist: three log lines in
\* that order and the disk as it was.
C15_Witness ==
    /\ dry_run
    /\ disk0["source.txt"] = "raw" /\ disk0["test.csv"] = "absent"
    /\ disk0["new_folder"] = "absent"
    /\ Len(fs_calls) = 3
    /\ fs_calls[1].op = "COPY" /\ fs_calls[1].src = "source.txt" /\ fs_calls[1].dst = "test.csv"
    /\ fs_calls[2].op = "DELETE" /\ fs_calls[2].src = "source.txt"
    /\ fs_calls[3].op = "MKDIR" /\ fs_calls[3].src = "new_folder"
    /\ Len(operations_log) = 3
    /\ disk = disk0

----------------------------------------------------------------------------
(* IntegrityValidator.validate_files (integrity.py:469-539) and
   read_csvs_parallel (utils.py:58-99) *)

MaxFiles == 3       \* files handed to validate_files

\* Default size of the thread pool (config.py:28).
DEFAULT_MAX_WORKERS == 4

\* Mutant of IssuesFound: the flag follows the last validated file only.
IssuesFoundLast(files, validated, threshold) ==
    /\ validated # <<>>
    /\ Validate(files[validated[Len(validated)]].df, threshold) # <<>>

\* issues_found after the validation loop over the files of validated.
IssuesFound(files, validated, threshold) ==
    \E k \in 1..Len(validated) : Validate(files[validated[k]].df, threshold) # <<>>

\* return False if issues_found else True
ReturnOf(issues_found) == IF issues_found THEN "False" ELSE "True"

\* The positions of files whose read succeeds, in order.
RECURSIVE ReadableFrom(_, _)
ReadableFrom(files, i) ==
    IF i > Len(files) THEN <<>>
    ELSE (IF files[i].err THEN <<>> ELSE <<i>>) \o ReadableFrom(files, i + 1)

\* The else branch (parallel=False, or at most one file): each file is read
\* and validated in turn, a failed read is reported and skipped.
vf_sequential ==
    /\ pc = "ready"
    /\ ~(vf_parallel /\ Len(vf_files) > 1)
    /\ pc' = "done"
    /\ vf_reads' = [i \in 1..Len(vf_files) |-> i]
    /\ vf_validated' = ReadableFrom(vf_files, 1)
    /\ vf_ret' = ReturnOf(IssuesFound(vf_files, ReadableFrom(vf_files, 1), gap_threshold))
    /\ UNCHANGED <<vf_files, vf_parallel, vf_max_workers, vf_task, vf_results>>
    /\ UNCHANGED <<mergeVars, pipeVars, valVars, interpVars, fsVars, procVars, importVars, headerVars,
                   fullVars, regVars, outVars, garminVars, watchVars,
                   nansVars>>

\* read_csvs_parallel: every path is submitted to the pool.
vf_submit ==
    /\ pc = "ready"
    /\ vf_parallel /\ Len(vf_files) > 1
    /\ pc' = "collecting"
    /\ vf_task' = [i \in 1..Len(vf_files) |-> "queued"]
    /\ UNCHANGED <<vf_files, vf_parallel, vf_max_workers, vf_results, vf_reads,
                   vf_validated, vf_ret>>
    /\ UNCHANGED <<mergeVars, pipeVars, valVars, interpVars, fsVars, procVars, importVars, headerVars,
                   fullVars, regVars, outVars, garminVars, watchVars,
                   nansVars>>

Running == {i \in 1..Len(vf_task) : vf_task[i] = "running"}

\* A free worker thread takes the oldest queued task and calls read_func.
worker_start ==
    /\ pc = "collecting"
    /\ Cardinality(Running) < vf_max_workers
    /\ \E i \in 1..Len(vf_task) :
          /\ vf_task[i] = "queued"
          /\ \A h \in 1..(i - 1) : vf_task[h] # "queued"
          /\ vf_task' = [vf_task EXCEPT ![i] = "running"]
          /\ vf_reads' = Append(vf_reads, i)
    /\ UNCHANGED <<pc, vf_files, vf_parallel, vf_max_workers, vf_results,
                   vf_validated, vf_ret>>
    /\ UNCHANGED <<mergeVars, pipeVars, valVars, interpVars, fsVars, procVars, importVars, headerVars,
                   fullVars, regVars, outVars, garminVars, watchVars,
                   nansVars>>

\* safe_read returns (path, df), or (path, None) after an exception.
worker_finish ==
    /\ pc = "collecting"
    /\ \E i \in Running : vf_task' = [vf_task EXCEPT ![i] = "done"]
    /\ UNCHANGED <<pc, vf_files, vf_parallel, vf_max_workers, vf_results, vf_reads,
                   vf_validated, vf_ret>>
    /\ UNCHANGED <<mergeVars, pipeVars, valVars, interpVars, fsVars, procVars, importVars, headerVars,
                   fullVars, regVars, outVars, garminVars, watchVars,
                   nansVars>>

\* The main thread's as_completed loop takes a finished future and keeps
\* its table when there is one.
main_collect ==
    /\ pc = "collecting"
    /\ \E i \in 1..Len(vf_task) :
          /\ vf_task[i] = "done"
          /\ vf_task' = [vf_task EXCEPT ![i] = "collected"]
          /\ vf_results' = IF vf_files[i].err THEN vf_results
                           ELSE Append(vf_results, i)
    /\ UNCHANGED <<pc, vf_files, vf_parallel, vf_max_workers, vf_reads,
                   vf_validated, vf_ret>>
    /\ UNCHANGED <<mergeVars, pipeVars, valVars, interpVars, fsVars, procVars, importVars, headerVars,
                   fullVars, regVars, outVars, garminVars, watchVars,
                   nansVars>>

\* With every future collected the pool is shut down and the main thread
\* validates the tables in the order of the results dict.
main_validate ==
    /\ pc = "collecting"
    /\ \A i \in 1..Len(vf_task) : vf_task[i] = "collected"
    /\ pc' = "done"
    /\ vf_validated' = vf_results
    /\ vf_ret' = ReturnOf(IssuesFound(vf_files, vf_results, gap_threshold))
    /\ UNCHANGED <<vf_files, vf_parallel, vf_max_workers, vf_task, vf_results, vf_reads>>
    /\ UNCHANGED <<mergeVars, pipeVars, valVars, interpVars, fsVars, procVars, importVars, headerVars,
                   fullVars, regVars, outVars, garminVars, watchVars,
                   nansVars>>

\* One-column tables around the threshold t: no missing value; no row at
\* all; a run of t missing values; t missing values of which only t - 1 are
\* in a row.
BatchTable(kind, t) ==
    LET col == CASE kind = "clean" -> <<Num(1), Num(2)>>
                 [] kind = "empty" -> <<>>
                 [] kind = "gap"   -> <<Num(1)>> \o [i \in 1..t |-> NaN] \o <<Num(2)>>
                 [] OTHER          -> [i \in 1..(t - 1) |-> NaN] \o <<Num(1), NaN>>
    IN  [cols |-> <<"smo2">>, n |-> Len(col), data |-> <<col>>]

BatchFiles(t) ==
    {ReadError}
    \cup {ReadOk(BatchTable(kind, t)) : kind \in {"clean", "empty", "gap", "scattered"}}

InitBatch ==
    /\ gap_threshold = MaxThreshold
    /\ vf_files \in UNION {[1..k -> BatchFiles(MaxThreshold)] : k \in 0..MaxFiles}
    /\ vf_parallel \in BOOLEAN
    /\ vf_max_workers \in {1, DEFAULT_MAX_WORKERS}
    /\ vf_task = <<>>
    /\ vf_results = <<>>
    /\ vf_reads = <<>>
    /\ vf_validated = <<>>
    /\ vf_ret = "pending"
    /\ v_df = EmptyTable
    /\ loader_spec = NoLoaderSpec
    /\ fail_fast = FALSE
    /\ strict_mode = FALSE
    /\ v_required = <<>>
    /\ v_result = NoResult
    /\ MergeIdle
    /\ PipelineIdle
    /\ InterpIdle
    /\ FsIdle
    /\ ProcIdle
    /\ ImportIdle
    /\ HeaderIdle
    /\ FullRunIdle
    /\ RegistryIdle
    /\ OutputIdle
    /\ GarminIdle
    /\ WatchIdle
    /\ NansIdle

NextBatch ==
    \/ vf_sequential
    \/ vf_submit
    \/ worker_start
    \/ worker_finish
    \/ main_collect
    \/ main_validate

SpecBatch == InitBatch /\ [][NextBatch]_vars

----------------------------------------------------------------------------
(* Claims about validate_files (specification SpecBatch) *)

\* File i was read successfully and one of its columns has a run of nulls
\* of at least gap_threshold.
HasLongGap(i) ==
    /\ ~vf_files[i].err
    /\ \E j \in 1..Len(vf_files[i].df.cols) :
          LongestNullRun(vf_files[i].df.data[j]) >= gap_threshold

\* C16: whatever the schedule of the reader threads and the order in which
\* they complete, validate_files returns False exactly when a successfully
\* read file has a column with a null run of at least gap_threshold; every
\* file is read once, a file whose read fails is skipped and every other
\* file is validated; the result is that of sequential mode.
C16_BatchResultScheduleIndependent ==
    pc = "done" =>
        /\ vf_ret \in {"True", "False"}
        /\ (vf_ret = "False") <=> (\E i \in 1..Len(vf_files) : HasLongGap(i))
        /\ Len(vf_reads) = Len(vf_files)
        /\ Range(vf_reads) = 1..Len(vf_files)
        /\ Range(vf_validated) = {i \in 1..Len(vf_files) : ~vf_files[i].err}
        /\ Len(vf_validated) = Cardinality(Range(vf_validated))
        /\ vf_ret = ReturnOf(IssuesFound(vf_files, ReadableFrom(vf_files, 1), gap_threshold))

\* Until validate_files has returned some step of it can be taken: no
\* schedule leaves the batch stuck.
C16_NeverStuck == pc # "done" => ENABLED NextBatch

\* C16 witness: a parallel batch of three files on one worker thread pool of
\* four; the first read fails, the second file has a long gap, and the third
\* file completes and is validated before the second.
C16_Witness ==
    /\ pc = "done"
    /\ vf_parallel /\ vf_max_workers = 4
    /\ Len(vf_files) = 3
    /\ vf_files[1].err
    /\ HasLongGap(2)
    /\ ~vf_files[3].err /\ ~HasLongGap(3)
    /\ vf_validated = <<3, 2>>
    /\ vf_ret = "False"

----------------------------------------------------------------------------
(* The loaders' process_files (trainred.py:271-356, tymewear.py:162-231,
   garmin.py:182-261, wahoo.py:218-228) and Pipeline.run_processing
   (pipeline.py:176-193), on a filesystem whose writes and moves succeed *)

MaxRawFiles == 2    \* raw files in one working directory

\* All loaders in priority order (1, 10, 20, 30).
AllLoaders == <<"wahoo">> \o OtherLoaders

\* A file of a working or archive directory.  id orders the names as glob
\* sorts them; tag tells the name: "raw" is <id>.csv, "avg" <id>_avg.csv,
\* "clean" <id>_clean.csv, "avg_clean" <id>_avg_clean.csv; kind tells what
\* the raw file holds.
File(id, tag, kind) == [id |-> id, tag |-> tag, kind |-> kind]

\* What a raw biosensor file may be: well-formed with SmO2 and THb; without a
\* Timestamp header; one that does not parse, not even with bad lines
\* skipped; well-formed but without SmO2 or THb.
TrainRedKinds == {"good", "no_timestamp", "parse_error", "no_required"}

\* What a raw breathing-sensor file may be: with BR, VT and VE; without one
\* of them; one whose read raises OSError or ParserError.
TymewearKinds == {"good", "missing_cols", "read_error"}

\* What a raw watch file may be: with a wanted column; with none; one whose
\* read raises OSError or ParserError.
GarminKinds == {"good", "no_wanted", "read_error"}

\* The files the name filters keep: "_clean" not in f.name (and, for the
\* biosensor and run_processing, "_avg" not in f.name), in glob order.
RECURSIVE SortedById(_)
SortedById(S) ==
    IF S = {} THEN <<>>
    ELSE LET f == CHOOSE f \in S : \A g \in S : f.id <= g.id
         IN  <<f>> \o SortedById(S \ {f})

NotCleanNorAvg(dir) == SortedById({f \in dir : f.tag = "raw"})
NotClean(dir) == SortedById({f \in dir : f.tag \in {"raw", "avg"}})

\* What process_files leaves: the two directories, the files reported with
\* print_error, and the exception that ended it ("" when it returned).
ProcState(w, o, errors, ret) == [work |-> w, old |-> o, errors |-> errors, ret |-> ret]

\* _normalize_to_1hz(path): a table, None, or FileFormatError raised when
\* both reads fail.
NormalizeTo1Hz(kind) ==
    CASE kind = "no_timestamp" -> "None"
      [] kind = "parse_error"  -> "FileFormatError"
      [] OTHER                 -> "table"

\* Stage 1 of the biosensor: st also carries avg_files.
RECURSIVE TrainRedStage1(_, _)
TrainRedStage1(todo, st) ==
    IF todo = <<>> THEN st
    ELSE LET path == Head(todo)
             df_normalized == NormalizeTo1Hz(path.kind)
             avg == File(path.id, "avg", path.kind)
         IN  IF df_normalized = "FileFormatError"
             THEN [st EXCEPT !.ret = "FileFormatError"]
             ELSE IF df_normalized = "None"
             THEN TrainRedStage1(Tail(todo), [st EXCEPT !.errors = @ \cup {path}])
             ELSE TrainRedStage1(Tail(todo),
                      [st EXCEPT !.work = (@ \ {path}) \cup {avg},
                                 !.old = @ \cup {path},
                                 !.avg_files = Append(@, avg)])

\* Stage 2 of the biosensor over avg_files.
RECURSIVE TrainRedStage2(_, _)
TrainRedStage2(todo, st) ==
    IF todo = <<>> THEN st
    ELSE LET path == Head(todo)
         IN  IF path.kind # "good"
             THEN TrainRedStage2(Tail(todo), [st EXCEPT !.errors = @ \cup {path}])
             ELSE TrainRedStage2(Tail(todo),
                      [st EXCEPT !.work = (@ \ {path})
                                          \cup {File(path.id, "avg_clean", path.kind)},
                                 !.old = @ \cup {path}])

\* TrainRedLoader.process_files
ProcessTrainRed(w, o) ==
    LET st0 == [work |-> w, old |-> o, errors |-> {}, ret |-> "", avg_files |-> <<>>]
        st1 == TrainRedStage1(NotCleanNorAvg(w), st0)
        st2 == IF st1.ret # "" THEN st1 ELSE TrainRedStage2(st1.avg_files, st1)
    IN  ProcState(st2.work, st2.old, st2.errors, st2.ret)

\* TymewearLoader.process_files: a file that passes validate_dataframe
\* reaches fs.write_csv(df_out, out_clean, ...) where out_clean was never
\* assigned, which raises NameError.
RECURSIVE ProcessTymewearFrom(_, _)
ProcessTymewearFrom(todo, st) ==
    IF todo = <<>> THEN st
    ELSE LET path == Head(todo)
         IN  IF path.kind \in {"read_error", "missing_cols"}
             THEN ProcessTymewearFrom(Tail(todo), [st EXCEPT !.errors = @ \cup {path}])
             ELSE [st EXCEPT !.ret = "NameError"]

ProcessTymewear(w, o) == ProcessTymewearFrom(NotClean(w), ProcState(w, o, {}, ""))

\* GarminLoader.process_files
RECURSIVE ProcessGarminFrom(_, _)
ProcessGarminFrom(todo, st) ==
    IF todo = <<>> THEN st
    ELSE LET path == Head(todo)
         IN  IF path.kind = "read_error"
             THEN ProcessGarminFrom(Tail(todo), [st EXCEPT !.errors = @ \cup {path}])
             ELSE IF path.kind = "no_wanted"
             THEN ProcessGarminFrom(Tail(todo), st)
             ELSE ProcessGarminFrom(Tail(todo),
                      [st EXCEPT !.work = (@ \ {path})
                                          \cup {File(path.id, "clean", path.kind)},
                                 !.old = @ \cup {path}])

ProcessGarmin(w, o) == ProcessGarminFrom(NotClean(w), ProcState(w, o, {}, ""))

\* loader.process_files() (the base file needs no processing).
ProcessFiles(loader, w, o) ==
    CASE loader = "trainred" -> ProcessTrainRed(w, o)
      [] loader = "tymewear" -> ProcessTymewear(w, o)
      [] loader = "garmin"   -> ProcessGarmin(w, o)
      [] OTHER               -> ProcState(w, o, {}, "")

Tagged(loader, files) == {[loader |-> loader, file |-> f] : f \in files}

\* The loop of run_processing from loader k on; rs is [work, old, ret,
\* errors, raised] over all loaders.
RECURSIVE RunProcessingFrom(_, _)
RunProcessingFrom(k, rs) ==
    IF k > Len(AllLoaders) THEN rs
    ELSE LET loader == AllLoaders[k]
             source_files == NotCleanNorAvg(rs.work[loader])
         IN  IF source_files # <<>> \/ loader = "wahoo"
             THEN LET r == ProcessFiles(loader, rs.work[loader], rs.old[loader])
                      rs1 == [work   |-> [rs.work EXCEPT ![loader] = r.work],
                              old    |-> [rs.old EXCEPT ![loader] = r.old],
                              ret    |-> [rs.ret EXCEPT ![loader] =
                                             IF r.ret = "" THEN "returned" ELSE r.ret],
                              errors |-> rs.errors \cup Tagged(loader, r.errors),
                              raised |-> r.ret]
                  IN  IF r.ret # "" THEN rs1 ELSE RunProcessingFrom(k + 1, rs1)
             ELSE RunProcessingFrom(k + 1, rs)

NotCalled == [l \in Range(AllLoaders) |-> "not_called"]

\* Pipeline.run_processing()
run_processing ==
    /\ pc = "ready"
    /\ pc' = "done"
    /\ LET rs == RunProcessingFrom(1, [work |-> work, old |-> old, ret |-> NotCalled,
                                       errors |-> {}, raised |-> ""])
       IN  /\ work' = rs.work
           /\ old' = rs.old
           /\ proc_ret' = rs.ret
           /\ proc_errors' = rs.errors
           /\ rp_ret' = IF rs.raised = "" THEN "returned" ELSE rs.raised
    /\ proc_call' = "run_processing"
    /\ UNCHANGED work0
    /\ UNCHANGED <<mergeVars, pipeVars, valVars, interpVars, fsVars, batchVars,
                   importVars, headerVars, fullVars, regVars, outVars,
                   garminVars, watchVars, nansVars>>

\* loader.process_files() called on its own.
process_files ==
    /\ pc = "ready"
    /\ pc' = "done"
    /\ \E loader \in Range(OtherLoaders) :
          LET r == ProcessFiles(loader, work[loader], old[loader])
          IN  /\ work' = [work EXCEPT ![loader] = r.work]
              /\ old' = [old EXCEPT ![loader] = r.old]
              /\ proc_ret' = [NotCalled EXCEPT ![loader] =
                                 IF r.ret = "" THEN "returned" ELSE r.ret]
              /\ proc_errors' = Tagged(loader, r.errors)
              /\ proc_call' = loader
    /\ UNCHANGED <<work0, rp_ret>>
    /\ UNCHANGED <<mergeVars, pipeVars, valVars, interpVars, fsVars, batchVars,
                   importVars, headerVars, fullVars, regVars, outVars,
                   garminVars, watchVars, nansVars>>

\* Working directories holding raw files only.
RawDirs(kinds) ==
    {{File(i, "raw", ks[i]) : i \in 1..Len(ks)} :
        ks \in UNION {[1..n -> kinds] : n \in 0..MaxRawFiles}}

InitProcess ==
    /\ work \in {[wahoo |-> {}, trainred |-> a, tymewear |-> b, garmin |-> c] :
                    a \in RawDirs(TrainRedKinds), b \in RawDirs(TymewearKinds),
                    c \in RawDirs(GarminKinds)}
    /\ work0 = work
    /\ old = [l \in Range(AllLoaders) |-> {}]
    /\ proc_call = ""
    /\ proc_ret = NotCalled
    /\ proc_errors = {}
    /\ rp_ret = "pending"
    /\ MergeIdle
    /\ PipelineIdle
    /\ ValidatorIdle
    /\ InterpIdle
    /\ FsIdle
    /\ BatchIdle
    /\ ImportIdle
    /\ HeaderIdle
    /\ FullRunIdle
    /\ RegistryIdle
    /\ OutputIdle
    /\ GarminIdle
    /\ WatchIdle
    /\ NansIdle

NextProcess == run_processing \/ process_files

SpecProcess == InitProcess /\ [][NextProcess]_vars

----------------------------------------------------------------------------
(* Claims about processing *)

ParseErrorFiles == {f \in work0["trainred"] : f.kind = "parse_error"}

\* C17: when normalization of one raw biosensor file ends in a file-format
\* error, run_processing does not raise it, the file is recorded as
\* unprocessable, the other well-formed files of that source are still
\* processed and every later source with raw files is still processed.
C17_ParseFailureDoesNotAbort ==
    (proc_call = "run_processing" /\ ParseErrorFiles # {}) =>
        /\ rp_ret # "FileFormatError"
        /\ Tagged("trainred", ParseErrorFiles) \subseteq proc_errors
        /\ \A f \in work0["trainred"] :
              f.kind = "good" => File(f.id, "avg_clean", "good") \in work["trainred"]
        /\ \A l \in {"tymewear", "garmin"} :
              work0[l] # {} => proc_ret[l] # "not_called"

\* C17: run_processing has ended with the file-format error of the first
\* biosensor file: the well-formed file after it is still raw, nothing is
\* recorded for the failed file and the watch files were never looked at.
C17_ParseFailureAborts ==
    /\ proc_call = "run_processing"
    /\ File(1, "raw", "parse_error") \in work0["trainred"]
    /\ File(2, "raw", "good") \in work0["trainred"]
    /\ work0["garmin"] # {}
    /\ rp_ret = "FileFormatError"
    /\ proc_errors = {}
    /\ File(2, "raw", "good") \in work["trainred"]
    /\ proc_ret["garmin"] = "not_called"

CleanTags == {"clean", "avg_clean"}

\* C18: after process_files of a source that cleans its input, every raw
\* file of the working directory that carries the required columns has a
\* clean file in the working directory and the raw file is in the archive.
C18_GoodRawFilesCleanedAndArchived ==
    proc_call \in Range(OtherLoaders) =>
        \A f \in work0[proc_call] :
            f.kind = "good" =>
                /\ \E g \in work[proc_call] : g.id = f.id /\ g.tag \in CleanTags
                /\ f \in old[proc_call]
                /\ f \notin work[proc_call]

\* C18: process_files of the breathing sensor has ended with NameError on a
\* file that carries the required columns: no clean file, nothing archived.
C18_TymewearWritesNothing ==
    /\ proc_call = "tymewear"
    /\ \E f \in work0["tymewear"] : f.kind = "good"
    /\ proc_ret["tymewear"] = "NameError"
    /\ work = work0
    /\ old["tymewear"] = {}

----------------------------------------------------------------------------
(* import_from_downloads (base.py:84-114, wahoo.py:192-216) with
   _copy_and_remove_from_downloads (base.py:141-149) on a real filesystem,
   one filesystem call per step; fs.mkdir(source_dir) succeeds *)

MaxInboxFiles == 2   \* csv files in downloads_dir

\* File names: an inbox file i keeps its name in the working directory,
\* except for the Wahoo loader, which always writes Wahoo.csv.
InboxNames == 1..MaxInboxFiles
WahooCsv == 0
WorkNames == {WahooCsv} \cup InboxNames

\* What a name holds: nothing, the data of inbox file i, a file the working
\* directory had before, or the torn output of a copy that failed half-way.
NoFile == [kind |-> "absent", of |-> 0]
Data(i) == [kind |-> "data", of |-> i]
OldFile == [kind |-> "old", of |-> 0]
TornFile == [kind |-> "torn", of |-> 0]

\* sorted(directory.glob(pattern)): the names present, in order.
RECURSIVE GlobFrom(_, _)
GlobFrom(d, i) ==
    IF i > MaxInboxFiles THEN <<>>
    ELSE IF d[i] # NoFile THEN <<i>> \o GlobFrom(d, i + 1)
    ELSE GlobFrom(d, i + 1)

Glob(d) == GlobFrom(d, 1)

\* dst of the loop body.
DstOf(loader, src) == IF loader = "wahoo" THEN WahooCsv ELSE src

\* Where _copy_and_remove_from_downloads goes after fs.copy: on to
\* fs.remove when the copy returned, to the except clause (return False, next
\* file) when it raised.  MUTANT: carries on to fs.remove either way.
AfterCopyAlwaysRemove(outcome, i) == [at |-> "copied", i |-> i]

AfterCopy(outcome, i) ==
    IF outcome = "ok" THEN [at |-> "copied", i |-> i]
    ELSE [at |-> "loop", i |-> i + 1]

\* What shutil.copy2(src, dst) may leave at dst.
CopyResults(d, dirOut, src, dst) ==
    {[outcome |-> "ok", dst |-> d[src]],
     [outcome |-> "raised", dst |-> dirOut[dst]],
     [outcome |-> "raised", dst |-> TornFile]}

\* import_from_downloads up to the loop.
import_start ==
    /\ pc = "ready"
    /\ IF downloads_exists
       THEN /\ pc' = "loop"
            /\ csv_files' = Glob(inbox)
       ELSE /\ pc' = "done"
            /\ UNCHANGED csv_files
    /\ UNCHANGED <<im_loader, downloads_exists, inbox, inbox0, source_dir, detected,
                   im_i, imported>>
    /\ UNCHANGED <<mergeVars, pipeVars, valVars, interpVars, fsVars, batchVars,
                   procVars, headerVars, fullVars, regVars, outVars,
                   garminVars, watchVars, nansVars>>

\* The loop body for a file detect_in_downloads rejects.
import_skip ==
    /\ pc = "loop"
    /\ im_i <= Len(csv_files)
    /\ ~detected[csv_files[im_i]]
    /\ im_i' = im_i + 1
    /\ UNCHANGED <<pc, im_loader, downloads_exists, inbox, inbox0, source_dir, detected,
                   csv_files, imported>>
    /\ UNCHANGED <<mergeVars, pipeVars, valVars, interpVars, fsVars, batchVars,
                   procVars, headerVars, fullVars, regVars, outVars,
                   garminVars, watchVars, nansVars>>

\* self.fs.copy(src, dst) for a detected file.
import_copy ==
    /\ pc = "loop"
    /\ im_i <= Len(csv_files)
    /\ detected[csv_files[im_i]]
    /\ LET src == csv_files[im_i]
           dst == DstOf(im_loader, src)
       IN  \E r \in CopyResults(inbox, source_dir, src, dst) :
              /\ source_dir' = [source_dir EXCEPT ![dst] = r.dst]
              /\ pc' = AfterCopy(r.outcome, im_i).at
              /\ im_i' = AfterCopy(r.outcome, im_i).i
    /\ UNCHANGED <<im_loader, downloads_exists, inbox, inbox0, detected, csv_files,
                   imported>>
    /\ UNCHANGED <<mergeVars, pipeVars, valVars, interpVars, fsVars, batchVars,
                   procVars, headerVars, fullVars, regVars, outVars,
                   garminVars, watchVars, nansVars>>

\* self.fs.remove(src), then return True and imported.append(dst) (and break
\* for the Wahoo loader), or the except clause when unlink raised.
import_remove ==
    /\ pc = "copied"
    /\ LET src == csv_files[im_i]
           dst == DstOf(im_loader, src)
       IN  \E outcome \in {"ok", "raised"} :
              IF outcome = "ok"
              THEN /\ inbox' = [inbox EXCEPT ![src] = NoFile]
                   /\ imported' = Append(imported, dst)
                   /\ pc' = IF im_loader = "wahoo" THEN "done" ELSE "loop"
              ELSE /\ UNCHANGED <<inbox, imported>>
                   /\ pc' = "loop"
    /\ im_i' = im_i + 1
    /\ UNCHANGED <<im_loader, downloads_exists, inbox0, source_dir, detected, csv_files>>
    /\ UNCHANGED <<mergeVars, pipeVars, valVars, interpVars, fsVars, batchVars,
                   procVars, headerVars, fullVars, regVars, outVars,
                   garminVars, watchVars, nansVars>>

\* return imported
import_return ==
    /\ pc = "loop"
    /\ im_i > Len(csv_files)
    /\ pc' = "done"
    /\ UNCHANGED importVars
    /\ UNCHANGED <<mergeVars, pipeVars, valVars, interpVars, fsVars, batchVars,
                   procVars, headerVars, fullVars, regVars, outVars,
                   garminVars, watchVars, nansVars>>

\* Inboxes holding the files 1..n.
Inboxes ==
    {[i \in InboxNames |-> IF i <= n THEN Data(i) ELSE NoFile] : n \in 0..MaxInboxFiles}

InitImport ==
    /\ im_loader \in {"base", "wahoo"}
    /\ downloads_exists \in BOOLEAN
    /\ inbox \in Inboxes
    /\ downloads_exists = FALSE => inbox = [i \in InboxNames |-> NoFile]
    /\ inbox0 = inbox
    /\ source_dir \in [WorkNames -> {NoFile, OldFile}]
    /\ detected \in [InboxNames -> BOOLEAN]
    /\ csv_files = <<>>
    /\ im_i = 1
    /\ imported = <<>>
    /\ MergeIdle
    /\ PipelineIdle
    /\ ValidatorIdle
    /\ InterpIdle
    /\ FsIdle
    /\ BatchIdle
    /\ ProcIdle
    /\ HeaderIdle
    /\ FullRunIdle
    /\ RegistryIdle
    /\ OutputIdle
    /\ GarminIdle
    /\ WatchIdle
    /\ NansIdle

NextImport ==
    import_start \/ import_skip \/ import_copy \/ import_remove \/ import_return

SpecImport == InitImport /\ [][NextImport]_vars

----------------------------------------------------------------------------
(* Claims about the import *)

InboxFiles0 == {i \in InboxNames : inbox0[i] # NoFile}

\* C19: at every step of import_from_downloads, a file is gone from the inbox
\* only if the working directory holds its copy, so it always exists in one
\* of the two; a file is listed as imported exactly when it was detected,
\* copied and removed, and then it exists only in the working directory; a
\* file that is not detected is left alone.
C19_ImportMovesWithoutLoss ==
    /\ \A src \in InboxFiles0 :
          /\ inbox[src] \in {inbox0[src], NoFile}
          /\ inbox[src] = NoFile =>
                /\ detected[src]
                /\ source_dir[DstOf(im_loader, src)] = inbox0[src]
                /\ DstOf(im_loader, src) \in Range(imported)
    /\ \A k \in 1..Len(imported) :
          \E src \in InboxFiles0 :
              /\ DstOf(im_loader, src) = imported[k]
              /\ inbox[src] = NoFile
              /\ source_dir[imported[k]] = inbox0[src]

\* C19: the import has returned after the copy of the first file failed
\* half-way and the second file went through: the first is still in the
\* inbox and not listed, the second is listed and only in the working
\* directory.
C19_Witness ==
    /\ pc = "done"
    /\ im_loader = "base"
    /\ detected[1] /\ detected[2]
    /\ inbox[1] = Data(1)
    /\ source_dir[1] = TornFile
    /\ inbox[2] = NoFile
    /\ source_dir[2] = Data(2)
    /\ imported = <<2>>

----------------------------------------------------------------------------
(* find_header_row (utils.py:20-55); a string is the sequence of its
   characters *)

MaxLines == 3                  \* lines in the file
HEADER_SCAN_MAX_LINES == 60    \* config.py:25

\* str.lower() on the characters in use.
LowerChar(c) ==
    CASE c = "B" -> "b"
      [] c = "R" -> "r"
      [] c = "V" -> "v"
      [] c = "T" -> "t"
      [] OTHER   -> c

StrLower(s) == [j \in 1..Len(s) |-> LowerChar(s[j])]

\* k in line, for two strings
Contains(line, k) ==
    \E off \in 0..(Len(line) - Len(k)) : SubSeq(line, off + 1, off + Len(k)) = k

\* if max_lines is None: max_lines = Config.HEADER_SCAN_MAX_LINES
MaxLinesOf(arg) == IF arg.given THEN arg.value ELSE HEADER_SCAN_MAX_LINES

\* if i >= max_lines: break.  MUTANT: the line at index max_lines is still
\* looked at.
BeyondLate(i, max_lines) == i > max_lines

Beyond(i, max_lines) == i >= max_lines

HeaderResult(found, row, raised) == [found |-> found, row |-> row, raised |-> raised]

\* The for loop over enumerate(f), from the 0-based index i on.
RECURSIVE ScanFrom(_, _, _, _)
ScanFrom(lines, i, keywords, max_lines) ==
    IF i >= Len(lines) THEN HeaderResult(FALSE, 0, "")
    ELSE IF Beyond(i, max_lines) THEN HeaderResult(FALSE, 0, "")
    ELSE LET line_lower == StrLower(lines[i + 1])
         IN  IF \A k \in Range(keywords) : Contains(line_lower, StrLower(k))
             THEN HeaderResult(TRUE, i, "")
             ELSE ScanFrom(lines, i + 1, keywords, max_lines)

FindHeaderRow(readable, lines, keywords, arg) ==
    IF ~readable THEN HeaderResult(FALSE, 0, "FileFormatError")
    ELSE ScanFrom(lines, 0, keywords, MaxLinesOf(arg))

\* find_header_row(path, keywords, max_lines)
find_header_row ==
    /\ pc = "ready"
    /\ pc' = "done"
    /\ fh_ret' = FindHeaderRow(fh_readable, fh_lines, fh_keywords, fh_max_lines)
    /\ UNCHANGED <<fh_readable, fh_lines, fh_keywords, fh_max_lines>>
    /\ UNCHANGED <<mergeVars, pipeVars, valVars, interpVars, fsVars, batchVars,
                   procVars, importVars, fullVars, regVars, outVars,
                   garminVars, watchVars, nansVars>>

\* Lines of sensor exports: an empty line, a metadata line, headers in both
\* cases and orders.
SampleLines ==
    {<<>>,
     <<"i", "d">>,
     <<"B", "R">>,
     <<"B", "R", ",", "V", "T">>,
     <<"b", "r", ",", "v", "t">>,
     <<"V", "T", ",", "B", "R">>}

\* Keyword lists: none, one, two, one no line holds, one with a metadata
\* word, the empty keyword.
SampleKeywords ==
    {<<>>,
     <<<<"B", "R">>>>,
     <<<<"b", "r">>, <<"V", "T">>>>,
     <<<<"R", "B">>>>,
     <<<<"v", "t">>, <<"i", "d">>>>,
     <<<<>>>>}

InitHeader ==
    /\ fh_readable \in BOOLEAN
    /\ fh_lines \in UNION {[1..n -> SampleLines] : n \in 0..MaxLines}
    /\ fh_keywords \in SampleKeywords
    /\ fh_max_lines \in {[given |-> FALSE, value |-> 0]}
                        \cup {[given |-> TRUE, value |-> v] : v \in 0..(MaxLines + 1)}
    /\ fh_ret = HeaderResult(FALSE, 0, "")
    /\ MergeIdle
    /\ PipelineIdle
    /\ ValidatorIdle
    /\ InterpIdle
    /\ FsIdle
    /\ BatchIdle
    /\ ProcIdle
    /\ ImportIdle
    /\ FullRunIdle
    /\ RegistryIdle
    /\ OutputIdle
    /\ GarminIdle
    /\ WatchIdle
    /\ NansIdle

NextHeader == find_header_row

SpecHeader == InitHeader /\ [][NextHeader]_vars

----------------------------------------------------------------------------
(* Claims about the header search *)

\* The two characters are the same letter, whatever their case.
SameLetter(a, b) ==
    \/ a = b
    \/ \E p \in {<<"B", "b">>, <<"R", "r">>, <<"V", "v">>, <<"T", "t">>} :
           {a, b} = {p[1], p[2]}

\* The line holds the keyword at some offset, compared letter by letter.
HoldsKeyword(line, k) ==
    \E off \in 0..(Len(line) - Len(k)) :
        \A j \in 1..Len(k) : SameLetter(line[off + j], k[j])

HoldsAll(line) == \A n \in 1..Len(fh_keywords) : HoldsKeyword(line, fh_keywords[n])

\* The 0-based indices below max_lines of the lines that hold every keyword.
HeaderCandidates ==
    {i \in 0..(Len(fh_lines) - 1) : i < MaxLinesOf(fh_max_lines) /\ HoldsAll(fh_lines[i + 1])}

\* C20: on a readable file find_header_row returns the smallest index
\* i < max_lines of a line that holds every keyword as a case-insensitive
\* substring, and None when there is no such line, whatever the lines from
\* index max_lines on hold.
C20_FirstLineWithAllKeywords ==
    (pc = "done" /\ fh_readable) =>
        IF HeaderCandidates = {}
        THEN fh_ret = HeaderResult(FALSE, 0, "")
        ELSE /\ fh_ret.found
             /\ fh_ret.raised = ""
             /\ fh_ret.row \in HeaderCandidates
             /\ \A i \in HeaderCandidates : fh_ret.row <= i

\* C20: None was returned for a file whose only lines with every keyword, in
\* another case than the keywords, are at index max_lines or later.
C20_Witness ==
    /\ pc = "done"
    /\ fh_readable
    /\ fh_keywords = <<<<"b", "r">>, <<"V", "T">>>>
    /\ fh_max_lines = [given |-> TRUE, value |-> 2]
    /\ Len(fh_lines) = 3
    /\ ~HoldsAll(fh_lines[1])
    /\ ~HoldsAll(fh_lines[2])
    /\ fh_lines[3] = <<"B", "R", ",", "V", "T">>
    /\ fh_ret = HeaderResult(FALSE, 0, "")

----------------------------------------------------------------------------
(* Pipeline.run_full (pipeline.py:273-299) with run_validation
   (pipeline.py:195-235), one stage per step; cleanup, import and processing
   are taken by their outcome only *)

\* What self.validator.validate_files(...) may do inside run_validation.
ValidationOutcomes == {"True", "False", "IntervalsValidationError", "Exception"}

\* is_valid after the try statement: both except clauses set it to False.
\* MUTANT: an exception of the validator counts as valid.
IsValidAfterLenient(outcome) == outcome # "False"

IsValidAfter(outcome) == outcome = "True"

\* run_validation: [asked, ret]; ret is "True", "False" or "RuntimeError".
RunValidation(outcome, answer) ==
    IF IsValidAfter(outcome) THEN [asked |-> FALSE, ret |-> "True"]
    ELSE IF answer THEN [asked |-> TRUE, ret |-> "False"]
    ELSE [asked |-> TRUE, ret |-> "RuntimeError"]

\* self.run_cleanup(); self.run_import(); self.run_processing()
rf_first_stages ==
    /\ pc = "ready"
    /\ pc' = IF rf_stages = "ok" THEN "processed" ELSE "done"
    /\ rf_ret' = IF rf_stages = "ok" THEN rf_ret ELSE "raised"
    /\ rf_trace' = Append(rf_trace, "stages")
    /\ UNCHANGED <<rf_stages, rv_outcome, rv_answer, rv_asked, rv_ret>>
    /\ UNCHANGED <<mergeVars, pipeVars, valVars, interpVars, fsVars, batchVars,
                   procVars, importVars, headerVars, regVars, outVars,
                   garminVars, watchVars, nansVars>>

\* self.run_validation()
run_validation ==
    /\ pc = "processed"
    /\ LET r == RunValidation(rv_outcome, rv_answer)
       IN  /\ rv_asked' = r.asked
           /\ rv_ret' = r.ret
           /\ pc' = IF r.ret = "RuntimeError" THEN "done" ELSE "validated"
           /\ rf_ret' = IF r.ret = "RuntimeError" THEN "raised" ELSE rf_ret
    /\ rf_trace' = Append(rf_trace, "validation")
    /\ UNCHANGED <<rf_stages, rv_outcome, rv_answer>>
    /\ UNCHANGED <<mergeVars, pipeVars, valVars, interpVars, fsVars, batchVars,
                   procVars, importVars, headerVars, regVars, outVars,
                   garminVars, watchVars, nansVars>>

\* return self.run_merge()
rf_run_merge ==
    /\ pc = "validated"
    /\ pc' = "done"
    /\ RunMerge
    /\ rf_ret' = rm_result'
    /\ rf_trace' = IF output_file'.written
                   THEN rf_trace \o <<"merge", "save_output">>
                   ELSE Append(rf_trace, "merge")
    /\ UNCHANGED <<rf_stages, rv_outcome, rv_answer, rv_asked, rv_ret>>
    /\ UNCHANGED <<valVars, interpVars, fsVars, batchVars, procVars, importVars,
                   headerVars, regVars, outVars, garminVars, watchVars,
                   nansVars>>

InitRunFull ==
    /\ pc = "ready"
    /\ wahoo_file \in WahooFiles
    /\ loader_files \in [Range(OtherLoaders) -> LoaderDirs]
    /\ yes_no \in BOOLEAN
    /\ validate_head = TRUE
    /\ validate_tail = TRUE
    /\ base_df = EmptyTable
    /\ clean_files = <<>>
    /\ df_concat = EmptyTable
    /\ df_head = EmptyTable
    /\ df_merged = EmptyTable
    /\ ui_log = <<>>
    /\ rm_result = "pending"
    /\ reads = <<>>
    /\ merge_calls = 0
    /\ output_file = [written |-> FALSE, df |-> EmptyTable]
    /\ rf_stages \in {"ok", "raised"}
    /\ rv_outcome \in ValidationOutcomes
    /\ rv_answer \in BOOLEAN
    /\ rv_asked = FALSE
    /\ rv_ret = "pending"
    /\ rf_ret = "pending"
    /\ rf_trace = <<>>
    /\ ValidatorIdle
    /\ InterpIdle
    /\ FsIdle
    /\ BatchIdle
    /\ ProcIdle
    /\ ImportIdle
    /\ HeaderIdle
    /\ RegistryIdle
    /\ OutputIdle
    /\ GarminIdle
    /\ WatchIdle
    /\ NansIdle

NextRunFull == rf_first_stages \/ run_validation \/ rf_run_merge

SpecRunFull == InitRunFull /\ [][NextRunFull]_vars

----------------------------------------------------------------------------
(* Claims about the full run *)

\* The position of a step in the steps run so far (0 when it has not run).
TracePos(step) ==
    IF \E k \in 1..Len(rf_trace) : rf_trace[k] = step
    THEN CHOOSE k \in 1..Len(rf_trace) : rf_trace[k] = step
    ELSE 0

\* C21: in run_full the merge runs and the output file is written only after
\* run_validation has returned, which takes that validation found no issue
\* or that the confirmation was answered yes; when validation finds an issue
\* or raises and the answer is no, run_validation raises and no output is
\* written.
C21_ValidationGatesMerge ==
    /\ (merge_calls > 0 \/ output_file.written \/ TracePos("merge") > 0) =>
          /\ rv_ret \in {"True", "False"}
          /\ 0 < TracePos("validation")
          /\ TracePos("validation") < TracePos("merge")
          /\ rv_outcome = "True" \/ (rv_asked /\ rv_answer)
    /\ (TracePos("validation") > 0 /\ rv_outcome # "True" /\ ~rv_answer) =>
          /\ rv_ret = "RuntimeError"
          /\ rf_ret = "raised"
          /\ pc = "done"
          /\ ~output_file.written
          /\ merge_calls = 0

\* C21: the validator raised, the confirmation was answered yes, and the
\* output file was written after run_validation returned False.
C21_Witness ==
    /\ pc = "done"
    /\ rv_outcome = "IntervalsValidationError"
    /\ rv_asked /\ rv_answer
    /\ rv_ret = "False"
    /\ output_file.written
    /\ rf_trace = <<"stages", "validation", "merge", "save_output">>

----------------------------------------------------------------------------
(* Claims about zero-row tables *)

\* The files of the batch that read as a table without rows.
ZeroRowFiles == {i \in 1..Len(vf_files) : ~vf_files[i].err /\ vf_files[i].df.n = 0}

\* C22: a zero-row table is an error on the batch path too: validate_files
\* returns False when one of its files reads as a table without rows.
C22_ZeroRowsFailBatch ==
    (pc = "done" /\ ZeroRowFiles # {}) => vf_ret = "False"

\* C22: validate_files has validated a file without rows and returned True.
C22_ZeroRowsPassBatch ==
    /\ pc = "done"
    /\ \E k \in 1..Len(vf_validated) : vf_validated[k] \in ZeroRowFiles
    /\ Validate(vf_files[1].df, gap_threshold) = <<>>
    /\ 1 \in ZeroRowFiles
    /\ vf_ret = "True"

\* C22, the part that holds: validate_full on a zero-row table raises
\* FileFormatError in fail-fast mode and otherwise returns is_valid = False
\* with the one error and no warning, whatever the loader spec asks for.
C22_ValidateFullRejectsZeroRows ==
    (v_result.call = "validate_full" /\ v_df.n = 0) =>
        IF fail_fast
        THEN v_result.raised = "FileFormatError"
        ELSE /\ v_result.raised = ""
             /\ ~v_result.is_valid
             /\ Len(v_result.errors) = 1
             /\ v_result.warnings = <<>>

----------------------------------------------------------------------------
(* LoaderRegistry (registry.py:51-300) and the loops of Pipeline over
   self.loaders (pipeline.py:61-88, 127, 173, 182, 207, 261); every registered
   class carries its own LOADER_SPEC.name, as the four of the program do *)

MaxRegistrations == 2    \* register / unregister calls after import

\* The names in use: the four loaders of the program and one more.
RegNames == {"trainred", "tymewear", "wahoo", "garmin", "custom"}

\* The priorities a later registration may give (100 is the default).
RegPriorities == {1, 15, 100}

\* The registry once the loaders package is imported (loaders/__init__.py:
\* trainred, tymewear, wahoo, garmin, with the priorities of their decorators).
ImportedLoaders == <<"trainred", "tymewear", "wahoo", "garmin">>
ImportedPriority ==
    [n \in Range(ImportedLoaders) |->
        CASE n = "wahoo" -> 1 [] n = "trainred" -> 10 [] n = "tymewear" -> 20 [] OTHER -> 30]

\* sorted(cls._loaders.keys(), key=priority): a stable sort, so names of
\* equal priority keep their dict order.
RECURSIVE SortedNames(_, _)
SortedNames(names, priority) ==
    IF names = <<>> THEN <<>>
    ELSE LET k == CHOOSE k \in 1..Len(names) :
                      /\ \A h \in 1..Len(names) : priority[names[k]] <= priority[names[h]]
                      /\ \A h \in 1..(k - 1) : priority[names[h]] # priority[names[k]]
             rest == [h \in 1..(Len(names) - 1) |-> IF h < k THEN names[h] ELSE names[h + 1]]
         IN  <<names[k]>> \o SortedNames(rest, priority)

\* The names of a list that are not in drop, in order.
RECURSIVE Without(_, _)
Without(names, drop) ==
    IF names = <<>> THEN <<>>
    ELSE (IF Head(names) \in drop THEN <<>> ELSE <<Head(names)>>)
         \o Without(Tail(names), drop)

\* get_all_loaders: the sorted names whose class could be instantiated.
\* MUTANT: dict order is kept.
GetAllLoadersUnsorted(names, priority, fails) == Without(names, fails)

GetAllLoaders(names, priority, fails) == Without(SortedNames(names, priority), fails)

\* cls._loaders[name] = loader_class; cls._metadata[name] = {...}: a new
\* key goes to the end of the dict, a known key keeps its place.
RegisterIn(names, name) == IF name \in Range(names) THEN names ELSE Append(names, name)

\* LoaderRegistry.register(name, priority)(cls) / register_loader(name, cls, priority)
register ==
    /\ pc = "ready"
    /\ reg_calls < MaxRegistrations
    /\ \E name \in RegNames : \E priority \in RegPriorities :
          /\ reg_loaders' = RegisterIn(reg_loaders, name)
          /\ reg_priority' = [n \in DOMAIN reg_priority \cup {name} |->
                                 IF n = name THEN priority ELSE reg_priority[n]]
    /\ reg_calls' = reg_calls + 1
    /\ UNCHANGED <<pc, inst_fails, available, pl_loaders, visits>>
    /\ UNCHANGED <<mergeVars, pipeVars, valVars, interpVars, fsVars, batchVars,
                   procVars, importVars, headerVars, fullVars, outVars,
                   garminVars, watchVars, nansVars>>

\* LoaderRegistry.unregister(name)
unregister ==
    /\ pc = "ready"
    /\ reg_calls < MaxRegistrations
    /\ \E name \in RegNames :
          IF name \in Range(reg_loaders)
          THEN /\ reg_loaders' = Without(reg_loaders, {name})
               /\ reg_priority' = [n \in DOMAIN reg_priority \ {name} |-> reg_priority[n]]
          ELSE UNCHANGED <<reg_loaders, reg_priority>>
    /\ reg_calls' = reg_calls + 1
    /\ UNCHANGED <<pc, inst_fails, available, pl_loaders, visits>>
    /\ UNCHANGED <<mergeVars, pipeVars, valVars, interpVars, fsVars, batchVars,
                   procVars, importVars, headerVars, fullVars, outVars,
                   garminVars, watchVars, nansVars>>

\* Pipeline(config, fs, ui): _init_loaders fills self._loaders from
\* get_all_loaders; available_loaders() is taken at the same moment.
pipeline_init ==
    /\ pc = "ready"
    /\ pc' = "built"
    /\ available' = SortedNames(reg_loaders, reg_priority)
    /\ pl_loaders' = GetAllLoaders(reg_loaders, reg_priority, inst_fails)
    /\ UNCHANGED <<reg_loaders, reg_priority, reg_calls, inst_fails, visits>>
    /\ UNCHANGED <<mergeVars, pipeVars, valVars, interpVars, fsVars, batchVars,
                   procVars, importVars, headerVars, fullVars, outVars,
                   garminVars, watchVars, nansVars>>

\* The steps of run_full, in its order.
PipelineSteps == <<"cleanup", "import", "processing", "validation", "merge">>

\* The loaders a step goes through: for loader in self.loaders, where the
\* merge leaves the base out of clean_files.
LoopOver(step, loaders) == IF step = "merge" THEN Without(loaders, {"wahoo"}) ELSE loaders

\* The next step of the pipeline runs its loop over self.loaders.
pipeline_step ==
    /\ pc = "built"
    /\ Len(visits) < Len(PipelineSteps)
    /\ visits' = Append(visits, LoopOver(PipelineSteps[Len(visits) + 1], pl_loaders))
    /\ UNCHANGED <<pc, reg_loaders, reg_priority, reg_calls, inst_fails, available,
                   pl_loaders>>
    /\ UNCHANGED <<mergeVars, pipeVars, valVars, interpVars, fsVars, batchVars,
                   procVars, importVars, headerVars, fullVars, outVars,
                   garminVars, watchVars, nansVars>>

InitRegistry ==
    /\ pc = "ready"
    /\ reg_loaders = ImportedLoaders
    /\ reg_priority = ImportedPriority
    /\ reg_calls = 0
    /\ inst_fails \in {{}} \cup {{n} : n \in RegNames}
    /\ available = <<>>
    /\ pl_loaders = <<>>
    /\ visits = <<>>
    /\ MergeIdle
    /\ PipelineIdle
    /\ ValidatorIdle
    /\ InterpIdle
    /\ FsIdle
    /\ BatchIdle
    /\ ProcIdle
    /\ ImportIdle
    /\ HeaderIdle
    /\ FullRunIdle
    /\ OutputIdle
    /\ GarminIdle
    /\ WatchIdle
    /\ NansIdle

NextRegistry == register \/ unregister \/ pipeline_init \/ pipeline_step

SpecRegistry == InitRegistry /\ [][NextRegistry]_vars

----------------------------------------------------------------------------
(* Claims about the loader order *)

\* The names come in non-decreasing priority.
ByPriority(names) ==
    \A h \in 1..Len(names) : \A k \in (h + 1)..Len(names) :
        reg_priority[names[h]] <= reg_priority[names[k]]

NoRepeat(names) == \A h, k \in 1..Len(names) : names[h] = names[k] => h = k

\* C23: after any registrations, available_loaders and Pipeline.loaders list
\* every registered (and instantiable) source once, in non-decreasing
\* priority, and each of the five pipeline steps goes through the loaders in
\* that same order (the merge without the base).
C23_LoadersInPriorityOrder ==
    pc = "built" =>
        /\ ByPriority(available) /\ NoRepeat(available)
        /\ Range(available) = Range(reg_loaders)
        /\ ByPriority(pl_loaders) /\ NoRepeat(pl_loaders)
        /\ Range(pl_loaders) = Range(reg_loaders) \ inst_fails
        /\ \A s \in 1..Len(visits) :
              /\ ByPriority(visits[s])
              /\ visits[s] = LoopOver(PipelineSteps[s], pl_loaders)
              /\ Range(visits[s]) = Range(pl_loaders) \ (IF s = 5 THEN {"wahoo"} ELSE {})

\* C23: the watch was registered again with priority 1 and a new source
\* added with priority 15, so that the sorted order differs from dict order
\* twice, and all five steps have run.
C23_Witness ==
    /\ pc = "built"
    /\ Len(visits) = 5
    /\ inst_fails = {}
    /\ reg_loaders = <<"trainred", "tymewear", "wahoo", "garmin", "custom">>
    /\ pl_loaders = <<"wahoo", "garmin", "trainred", "custom", "tymewear">>

----------------------------------------------------------------------------
(* The dated output file over the invocations of one day: cli.main
   (cli.py:155-185), Pipeline._archive_old_training_files
   (pipeline.py:140-162) and DataMerger.save_output (merger.py:209-227) on a
   real filesystem *)

MaxRuns == 3      \* invocations on one day
NoOutput == 0     \* the path holds no file

\* The stages an invocation goes through before the merge: the full
\* pipeline starts with the cleanup, --merge-only with the validation.
FirstStage(mode) == IF mode = "full" THEN "cleanup" ELSE "validate"

\* main(): one invocation starts.
cli_main ==
    /\ pc = "ready"
    /\ Len(invocations) < MaxRuns
    /\ \E mode \in {"full", "merge_only"} :
          /\ invocations' = Append(invocations, mode)
          /\ pc' = FirstStage(mode)
    /\ UNCHANGED <<out_file, out_archive, out_writes>>
    /\ UNCHANGED <<mergeVars, pipeVars, valVars, interpVars, fsVars, batchVars,
                   procVars, importVars, headerVars, fullVars, regVars,
                   garminVars, watchVars, nansVars>>

\* _archive_old_training_files: every Trening-*.csv of base_dir is moved to
\* 5_Treningi_Old under its own name (replacing a file of that name there);
\* a move that raises is reported and the file stays.
archive_old_training_files ==
    /\ pc = "cleanup"
    /\ pc' = "validate"
    /\ \/ /\ out_file # NoOutput
          /\ out_archive' = out_file
          /\ out_file' = NoOutput
       \/ UNCHANGED <<out_file, out_archive>>
    /\ UNCHANGED <<invocations, out_writes>>
    /\ UNCHANGED <<mergeVars, pipeVars, valVars, interpVars, fsVars, batchVars,
                   procVars, importVars, headerVars, fullVars, regVars,
                   garminVars, watchVars, nansVars>>

\* The stages up to merge_files: they end the invocation (an exception, or
\* run_merge returning None without a base) or hand a table to save_output.
stages_before_save ==
    /\ pc = "validate"
    /\ pc' \in {"save", "ready"}
    /\ UNCHANGED <<invocations, out_file, out_archive, out_writes>>
    /\ UNCHANGED <<mergeVars, pipeVars, valVars, interpVars, fsVars, batchVars,
                   procVars, importVars, headerVars, fullVars, regVars,
                   garminVars, watchVars, nansVars>>

\* save_output: fs.write_csv(df, base_dir / output_filename)
save_output ==
    /\ pc = "save"
    /\ pc' = "ready"
    /\ out_file' = Len(invocations)
    /\ out_writes' = Append(out_writes, Len(invocations))
    /\ UNCHANGED <<invocations, out_archive>>
    /\ UNCHANGED <<mergeVars, pipeVars, valVars, interpVars, fsVars, batchVars,
                   procVars, importVars, headerVars, fullVars, regVars,
                   garminVars, watchVars, nansVars>>

InitOutput ==
    /\ pc = "ready"
    /\ invocations = <<>>
    /\ out_file = NoOutput
    /\ out_archive = NoOutput
    /\ out_writes = <<>>
    /\ MergeIdle
    /\ PipelineIdle
    /\ ValidatorIdle
    /\ InterpIdle
    /\ FsIdle
    /\ BatchIdle
    /\ ProcIdle
    /\ ImportIdle
    /\ HeaderIdle
    /\ FullRunIdle
    /\ RegistryIdle
    /\ GarminIdle
    /\ WatchIdle
    /\ NansIdle

NextOutput ==
    cli_main \/ archive_old_training_files \/ stages_before_save \/ save_output

SpecOutput == InitOutput /\ [][NextOutput]_vars

----------------------------------------------------------------------------
(* Claims about the output file *)

\* C24: over the invocations of one day, full or merge-only, save_output
\* never replaces an existing output file: whenever the file is written, no
\* file was there.
C24_SaveNeverReplaces ==
    [][(out_writes' # out_writes) => out_file = NoOutput]_vars

\* C24: two merge-only invocations both wrote the file: the second replaced
\* the output of the first, which is in no archive either.
C24_MergeOnlyOverwrote ==
    /\ invocations = <<"merge_only", "merge_only">>
    /\ out_writes = <<1, 2>>
    /\ out_file = 2
    /\ out_archive = NoOutput

----------------------------------------------------------------------------
(* Claims about columns with short and long null runs *)

\* The nulls of col in a run of at most g cells with a value before and
\* after the run.
ShortInteriorNulls(col, g) ==
    {p \in NullsIn(col) :
        /\ NullRunAt(col, p) <= g
        /\ \E q \in 1..(p - 1) : col[q] # NaN
        /\ \E q \in (p + 1)..Len(col) : col[q] # NaN}

\* C25: in a column with a null run longer than max_gap, every null of an
\* interior run of at most max_gap cells is filled, the nulls of the longer
\* runs stay, and total_filled is the number of cells filled.
C25_ShortRunsFilledBesideLongRuns ==
    (pc = "done" /\ ip_method \in FillMethods) =>
        /\ \A j \in NumericColumns(ip_df) :
              LongestRun(ip_df.data[j]) > ip_max_gap =>
                  /\ \A p \in ShortInteriorNulls(ip_df.data[j], ip_max_gap) :
                        ip_result.df.data[j][p] # NaN
                  /\ \A p \in NullsIn(ip_df.data[j]) :
                        NullRunAt(ip_df.data[j], p) > ip_max_gap =>
                            ip_result.df.data[j][p] = NaN
        /\ ip_result.total_filled =
              Cardinality({c \in NumericColumns(ip_df) \X (1..ip_df.n) :
                              /\ ip_df.data[c[1]][c[2]] = NaN
                              /\ ip_result.df.data[c[1]][c[2]] # NaN})

\* C25: a column with a one-cell interior gap and a longer run came back
\* as it was, with nothing filled.
C25_ShortRunsLeftBesideLongRuns ==
    /\ pc = "done"
    /\ ip_method = "linear"
    /\ ip_max_gap = 1
    /\ \E j \in NumericColumns(ip_df) :
          /\ ip_df.data[j] = <<Num(60), NaN, Num(180), NaN, NaN>>
          /\ ip_result.df.data[j] = ip_df.data[j]
    /\ ip_result.total_filled = 0

----------------------------------------------------------------------------
(* Processing again after a run that left files behind: between two calls
   the user takes a raw file out of a working directory *)

\* A raw file is deleted from a working directory and the program is ready
\* to be called again.
remove_raw_file ==
    /\ pc = "done"
    /\ pc' = "ready"
    /\ \E loader \in Range(OtherLoaders) : \E f \in work[loader] :
          /\ f.tag = "raw"
          /\ work' = [work EXCEPT ![loader] = @ \ {f}]
    /\ work0' = work'
    /\ proc_call' = ""
    /\ proc_ret' = NotCalled
    /\ proc_errors' = {}
    /\ rp_ret' = "pending"
    /\ UNCHANGED old
    /\ UNCHANGED <<mergeVars, pipeVars, valVars, interpVars, fsVars, batchVars,
                   importVars, headerVars, fullVars, regVars, outVars,
                   garminVars, watchVars, nansVars>>

\* Only the biosensor directory holds files.
InitResume ==
    /\ InitProcess
    /\ work["tymewear"] = {}
    /\ work["garmin"] = {}

NextResume == run_processing \/ process_files \/ remove_raw_file

SpecResume == InitResume /\ [][NextResume]_vars

----------------------------------------------------------------------------
(* Claims about intermediate files of an earlier run *)

\* The well-formed _avg files the working directory held before the call.
LeftoverAvg == {f \in work0["trainred"] : f.tag = "avg" /\ f.kind = "good"}

MaxGarminRows == 32      \* rows of the extracted table
LEADING_NAN_LIMIT == 30  \* garmin.py:81

\* The rows in use, over two wanted columns: a complete row, a row with a
\* NaN cell, a row with a blank string cell.
GarminRow(kind) ==
    CASE kind = "full"  -> <<Num(1), Num(1)>>
      [] kind = "nan"   -> <<NaN, Num(1)>>
      [] kind = "blank" -> <<Num(1), Txt(" ")>>

GarminRowKinds == {"full", "nan", "blank"}

Repeat(row, n) == [i \in 1..n |-> row]

\* Tables of up to three runs of equal rows.
GarminTables ==
    {Repeat(GarminRow(k[1]), n[1]) \o Repeat(GarminRow(k[2]), n[2])
                                   \o Repeat(GarminRow(k[3]), n[3]) :
        k \in [1..3 -> GarminRowKinds],
        n \in {m \in [1..3 -> 0..MaxGarminRows] : m[1] + m[2] + m[3] <= MaxGarminRows}}

\* df_out.replace(r"^\s*$", np.nan, regex=True)
ReplaceBlank(cell) ==
    IF cell.k = "str" /\ cell.str \in {"", " "} THEN NaN ELSE cell

ReplaceBlanks(df) == [i \in 1..Len(df) |-> [c \in 1..Len(df[i]) |-> ReplaceBlank(df[i][c])]]

\* head_part.isna().any(axis=1)
RowHasNaN(row) == \E c \in 1..Len(row) : row[c].k = "nan"

\* head_n = min(LEADING_NAN_LIMIT, len(df_out));
\* idx_to_drop = head_part[head_part.isna().any(axis=1)].index
IdxToDrop(df, limit) ==
    {i \in 1..(IF limit <= Len(df) THEN limit ELSE Len(df)) : RowHasNaN(df[i])}

\* df_out.drop(index=idx_to_drop): the rows left, each with its index label.
DropIndex(df, idx) ==
    SelectSeq([i \in 1..Len(df) |-> [label |-> i, row |-> df[i]]],
              LAMBDA r : r.label \notin idx)

garmin_process_file ==
    /\ pc = "ready"
    /\ pc' = "done"
    /\ IF ~g_present
         THEN \* if not present: continue
              UNCHANGED <<g_clean, g_rows_dropped>>
         ELSE LET df_out == ReplaceBlanks(g_df)
                  idx_to_drop == IdxToDrop(df_out, LEADING_NAN_LIMIT)
              IN  /\ g_clean' = DropIndex(df_out, idx_to_drop)
                  /\ g_rows_dropped' = Cardinality(idx_to_drop)
    /\ UNCHANGED <<g_present, g_df>>
    /\ UNCHANGED <<mergeVars, pipeVars, valVars, interpVars, fsVars, batchVars, procVars,
                   importVars, headerVars, fullVars, regVars, outVars,
                   watchVars, nansVars>>

InitGarmin ==
    /\ pc = "ready"
    /\ \E p \in BOOLEAN :
          /\ g_present = p
          /\ g_df \in (IF p THEN GarminTables ELSE {<<>>})
    /\ g_clean = <<>>
    /\ g_rows_dropped = 0
    /\ MergeIdle
    /\ PipelineIdle
    /\ ValidatorIdle
    /\ InterpIdle
    /\ FsIdle
    /\ BatchIdle
    /\ ProcIdle
    /\ ImportIdle
    /\ HeaderIdle
    /\ FullRunIdle
    /\ RegistryIdle
    /\ OutputIdle
    /\ WatchIdle
    /\ NansIdle

NextGarmin == garmin_process_file

SpecGarmin == InitGarmin /\ [][NextGarmin]_vars

\* The index labels of g_df that are missing from the table written.
GarminRemoved == (1..Len(g_df)) \ {g_clean[i].label : i \in 1..Len(g_clean)}

\* C27: the rows removed from the extracted table form a prefix of it: a
\* block at its start of at most 30 rows, each incomplete, and no row
\* below a kept row is removed.
C27_RemovedRowsArePrefix ==
    (pc = "done" /\ g_present) =>
        /\ \E k \in 0..LEADING_NAN_LIMIT : GarminRemoved = 1..k
        /\ \A i \in GarminRemoved : RowHasNaN(ReplaceBlanks(g_df)[i])

\* C27: a file whose second row has a NaN below a complete first row: the
\* second row is removed and the first one is kept.
C27_RowBelowKeptRowRemoved ==
    /\ pc = "done"
    /\ g_present
    /\ Len(g_df) = 3
    /\ g_df[1] = GarminRow("full")
    /\ g_df[2] = GarminRow("nan")
    /\ g_df[3] = GarminRow("full")
    /\ GarminRemoved = {2}
    /\ g_rows_dropped = 1

\* What does hold of the rows removed: there are at most LEADING_NAN_LIMIT
\* of them, all among the first LEADING_NAN_LIMIT rows, each with a NaN or
\* blank cell, and the rows kept are in their original order.
C27_RemovedRowsIncompleteWithinLimit ==
    (pc = "done" /\ g_present) =>
        /\ Cardinality(GarminRemoved) <= LEADING_NAN_LIMIT
        /\ g_rows_dropped = Cardinality(GarminRemoved)
        /\ \A i \in GarminRemoved :
              i <= LEADING_NAN_LIMIT /\ RowHasNaN(ReplaceBlanks(g_df)[i])
        /\ \A i \in 1..Len(g_df) :
              (i <= LEADING_NAN_LIMIT /\ RowHasNaN(ReplaceBlanks(g_df)[i])) => i \in GarminRemoved
        /\ \A i, j \in 1..Len(g_clean) : i < j => g_clean[i].label < g_clean[j].label


(***************************************************************************)
(* DownloadsWatcher.watch (watcher.py:49-93) with AutoImporter as the      *)
(* caller (watcher.py:119-146).  One action per statement group of the     *)
(* polling loop, so that files may come and go between the poll, the       *)
(* callback and the next poll.  The callback runs Pipeline.run_full, whose *)
(* import stage moves files out of the directory; an exception of          *)
(* run_full is caught by _on_new_files.                                    *)
(***************************************************************************)
WatchFiles == {"a.csv", "b.csv", "notes.txt"}

\* self.patterns = patterns or ["*.csv"]
MatchesPatterns(name) == name \in {"a.csv", "b.csv"}

\* _check_for_new_files, as names: set(f.name for f in ...)
CheckForNewFiles(dir) == {name \in dir : MatchesPatterns(name)}

WatchFrame ==
    UNCHANGED <<pc, mergeVars, pipeVars, valVars, interpVars, fsVars, batchVars, procVars,
                importVars, headerVars, fullVars, regVars, outVars, garminVars,
                nansVars>>

\* self._stop_event.clear(); known_files = set(f.name for f in self._check_for_new_files())
watch_start ==
    /\ w_pc = "idle"
    /\ w_stop' = FALSE
    /\ w_known' = CheckForNewFiles(w_dir)
    /\ w_seen' = CheckForNewFiles(w_dir)
    /\ w_pc' = "loop"
    /\ UNCHANGED <<w_dir, w_current, w_new, w_passed, w_owed>>
    /\ WatchFrame

\* while not self._stop_event.is_set(): current_names, new_names
watch_poll ==
    /\ w_pc = "loop"
    /\ IF w_stop
         THEN /\ w_pc' = "returned"
              /\ UNCHANGED <<w_current, w_new, w_seen, w_owed>>
         ELSE LET current_names == CheckForNewFiles(w_dir)
                  new_names == current_names \ w_known
              IN  /\ w_current' = current_names
                  /\ w_new' = new_names
                  /\ w_seen' = current_names
                  /\ w_owed' = w_owed \cup (current_names \ w_seen)
                  /\ w_pc' = IF new_names # {} THEN "debounce" ELSE "sleep"
    /\ UNCHANGED <<w_dir, w_stop, w_known, w_passed>>
    /\ WatchFrame

\* time.sleep(debounce_seconds); callback(new_files); known_files = current_names
watch_callback ==
    /\ w_pc = "debounce"
    /\ w_passed' = w_new
    /\ w_owed' = w_owed \ w_new
    /\ w_known' = w_current
    /\ \E moved \in SUBSET CheckForNewFiles(w_dir) : w_dir' = w_dir \ moved
    /\ w_pc' = "sleep"
    /\ UNCHANGED <<w_stop, w_current, w_new, w_seen>>
    /\ WatchFrame

\* time.sleep(1.0)
watch_sleep ==
    /\ w_pc = "sleep"
    /\ w_pc' = "loop"
    /\ UNCHANGED <<w_dir, w_stop, w_known, w_current, w_new, w_passed, w_seen, w_owed>>
    /\ WatchFrame

\* DownloadsWatcher.stop, from another thread
watch_stop ==
    /\ w_pc \in {"loop", "debounce", "sleep"}
    /\ ~w_stop
    /\ w_stop' = TRUE
    /\ UNCHANGED <<w_dir, w_pc, w_known, w_current, w_new, w_passed, w_seen, w_owed>>
    /\ WatchFrame

\* A download puts a file into the directory.
file_appears ==
    /\ w_pc # "returned"
    /\ \E name \in WatchFiles \ w_dir : w_dir' = w_dir \cup {name}
    /\ UNCHANGED <<w_pc, w_stop, w_known, w_current, w_new, w_passed, w_seen, w_owed>>
    /\ WatchFrame

\* The user, or another program, takes a file out of the directory.
file_disappears ==
    /\ w_pc # "returned"
    /\ \E name \in w_dir : w_dir' = w_dir \ {name}
    /\ UNCHANGED <<w_pc, w_stop, w_known, w_current, w_new, w_passed, w_seen, w_owed>>
    /\ WatchFrame

InitWatch ==
    /\ pc = "ready"
    /\ w_dir \in SUBSET WatchFiles
    /\ w_pc = "idle"
    /\ w_stop \in BOOLEAN
    /\ w_known = {}
    /\ w_current = {}
    /\ w_new = {}
    /\ w_passed = {}
    /\ w_seen = {}
    /\ w_owed = {}
    /\ MergeIdle
    /\ PipelineIdle
    /\ ValidatorIdle
    /\ InterpIdle
    /\ FsIdle
    /\ BatchIdle
    /\ ProcIdle
    /\ ImportIdle
    /\ HeaderIdle
    /\ FullRunIdle
    /\ RegistryIdle
    /\ OutputIdle
    /\ GarminIdle
    /\ NansIdle

WatcherStep == watch_start \/ watch_poll \/ watch_callback \/ watch_sleep

NextWatch ==
    \/ watch_start
    \/ watch_poll
    \/ watch_callback
    \/ watch_sleep
    \/ watch_stop
    \/ file_appears
    \/ file_disappears

SpecWatch == InitWatch /\ [][NextWatch]_vars

\* The thread running watch is scheduled again and again (its sleeps end);
\* nothing is assumed of the files or of the caller of stop.
SpecWatchFair == SpecWatch /\ WF_vars(WatcherStep)

\* C28: while watch runs and stop has not been called, a matching file
\* that a poll finds and the poll before did not find is eventually passed
\* to the callback.
C28_NewFilesEventuallyPassed ==
    \A name \in CheckForNewFiles(WatchFiles) :
        (name \in w_owed) ~> (name \notin w_owed \/ w_stop)

\* C28: a.csv was taken out of the directory and put back between two
\* polls; the latest poll found it, the one before did not, the poll found
\* no new name and the loop went to sleep without a callback.
C28_ReappearedFileNotPassed ==
    /\ w_pc = "sleep"
    /\ ~w_stop
    /\ "a.csv" \in w_owed
    /\ "a.csv" \in w_current
    /\ "a.csv" \in w_known
    /\ w_new = {}
    /\ w_passed = {}

\* What the loop does guarantee: a name is passed to the callback by the
\* iteration whose poll finds it outside known_files.
C28_NamesOutsideKnownPassed ==
    [][watch_callback => (w_passed' = w_current \ w_known /\ w_passed' # {})]_vars


(***************************************************************************)
(* check_consecutive_nans_optimized called on its own (utils.py:102-137),  *)
(* as the tests of TestConsecutiveNansOptimized call it.                   *)
(***************************************************************************)
MaxSeriesLen == 4       \* length of the series
MaxNanThreshold == 3    \* largest threshold given explicitly

\* cn_ret before the call.
NotRun == 0 - 1

\* if threshold is None: threshold = Config.DEFAULT_GAP_THRESHOLD
ThresholdOf(arg) == IF arg.given THEN arg.value ELSE DEFAULT_GAP_THRESHOLD

NanSeries ==
    UNION {[1..m -> {NaN, Num(1), Txt(""), Txt(" ")}] : m \in 0..MaxSeriesLen}

NanThresholds ==
    {[given |-> FALSE, value |-> 0]}
        \cup {[given |-> TRUE, value |-> t] : t \in 0..MaxNanThreshold}

check_consecutive_nans_optimized ==
    /\ pc = "ready"
    /\ pc' = "done"
    /\ cn_ret' = CheckConsecutiveNans(cn_series, ThresholdOf(cn_threshold))
    /\ UNCHANGED <<cn_series, cn_threshold>>
    /\ UNCHANGED <<mergeVars, pipeVars, valVars, interpVars, fsVars, batchVars, procVars,
                   importVars, headerVars, fullVars, regVars, outVars, garminVars,
                   watchVars>>

InitNans ==
    /\ pc = "ready"
    /\ cn_series \in NanSeries
    /\ cn_threshold \in NanThresholds
    /\ cn_ret = NotRun
    /\ MergeIdle
    /\ PipelineIdle
    /\ ValidatorIdle
    /\ InterpIdle
    /\ FsIdle
    /\ BatchIdle
    /\ ProcIdle
    /\ ImportIdle
    /\ HeaderIdle
    /\ FullRunIdle
    /\ RegistryIdle
    /\ OutputIdle
    /\ GarminIdle
    /\ WatchIdle

NextNans == check_consecutive_nans_optimized

SpecNans == InitNans /\ [][NextNans]_vars

\* C29: check_consecutive_nans_optimized returns the length of the longest
\* run of consecutive NaN or empty-string values of the series, 0 when it
\* has none, whatever the threshold.
C29_ReturnsLongestNullRun ==
    pc = "done" => cn_ret = LongestNullRun(cn_series)

\* C29: two nulls that are not neighbours, default threshold: 2 is returned
\* and the longest run has length 1.
C29_ScatteredNullsCounted ==
    /\ pc = "done"
    /\ cn_series = <<NaN, Num(1), Txt("")>>
    /\ ~cn_threshold.given
    /\ LongestNullRun(cn_series) = 1
    /\ cn_ret = 2

\* What does hold: the longest run is returned when the series has at least
\* threshold nulls, and a number below the threshold otherwise, so that the
\* comparisons of the callers with the threshold come out as if the longest
\* run had been returned.
C29_ReturnAgreesAtThreshold ==
    pc = "done" =>
        LET threshold == ThresholdOf(cn_threshold)
            null_count == Cardinality({i \in 1..Len(cn_series) : NullCell(cn_series[i])})
        IN  /\ null_count >= threshold => cn_ret = LongestNullRun(cn_series)
            /\ null_count < threshold =>
                  cn_ret = null_count /\ LongestNullRun(cn_series) <= cn_ret
            /\ (cn_ret >= threshold) = (LongestNullRun(cn_series) >= threshold)


----------------------------------------------------------------------------
(* A failed read in merge_files (specification Spec) *)

\* The sources of clean_files whose read succeeded, in their order.
ReadableSources == SelectSeq(clean_files, LAMBDA f : ~f.err)

\* The error messages of merge_files in ui_log.
MergeErrors == {i \in 1..Len(ui_log) : ui_log[i] = Ev("error", "merge_files")}

\* C30: a source whose read fails is left out and nothing else changes:
\* merge_files returns, its result is the merge of the base with the other
\* sources in their order, and each failed source is reported once.
C30_FailedReadIsolated ==
    (pc = "done" /\ \E i \in 1..Len(clean_files) : clean_files[i].err) =>
        /\ df_concat = MergeConcat(base_df, ReadableSources).df
        /\ df_merged = df_concat
        /\ Cardinality(MergeErrors) = Len(clean_files) - Len(ReadableSources)

\* C30: the first source cannot be read and the second brings smo2: the
\* result has the columns of the base and smo2.
C30_Witness ==
    /\ pc = "done"
    /\ Len(clean_files) = 2
    /\ clean_files[1].err
    /\ ~clean_files[2].err
    /\ clean_files[2].df.cols = <<"smo2">>
    /\ base_df.cols = <<"secs", "watts">>
    /\ df_merged.cols = <<"secs", "watts", "smo2">>
    /\ Cardinality(MergeErrors) = 1

============================================================================
